---- MODULE Spec2Model ----
(***************************************************************************)
(* Training application: the record store (DataService over               *)
(* StorageService / localStorage) and the handlers that drive it.          *)
(*                                                                         *)
(* Strings of the program are TLA+ strings.  A property that is undefined  *)
(* in JavaScript (a key the object does not carry) is the value Undefined. *)
(* An identifier string is modelled by its two parts: the Date.now() part  *)
(* t and the Math.random() part r; the empty string is NoId.               *)
(***************************************************************************)
EXTENDS Integers, Sequences, FiniteSets, TLC

\* ------------------------------------------------------------------ bounds
\* longest training collection addRecord is tried on
MaxRecords == 1
\* longest plan collection addPlan is tried on
MaxPlans == 1
\* longest imported file (rows)
MaxRows == 2
\* last value of the millisecond clock
MaxClock == 2
\* number of Math.random() draws
MaxRandom == 1
\* number of setItem calls that throw
MaxFailures == 1
\* deferred renders pending at once
MaxTimers == 1
\* Papa.parse calls in flight at once
MaxParsing == 1
\* longest training collection the store starts with
MaxStored == 3
\* longest plan collection the store starts with
MaxStoredPlans == 3

\* --------------------------------------------------------------- constants
Undefined == "<undefined>"

AUTHORIZED_TRAINERS ==
    {"Mariyam Bounouar", "Ahmed El Heddaji", "Ahmed Lahlou", "Nora Sadki",
     "Soukaina El Bouziani", "Fatima Lyazidi", "Kamal Hbahem", "Saida Karbal"}

\* the names typed at login
LoginNames == {"Nora Sadki"}

TRAINING_DATA == "trainingData"

PLANNED_SESSIONS == "plannedSessions"

STORAGE_KEYS == {TRAINING_DATA, PLANNED_SESSIONS}

MONTH_ORDER ==
    << "January", "February", "March", "April", "May", "June",
       "July", "August", "September", "October", "November", "December" >>

\* JavaScript truthiness of a string-valued property
Truthy(v) == v # Undefined /\ v # ""

\* ------------------------------------------------------------- identifiers
NoId == [t |-> 0, r |-> 0]

\* identifiers a CSV file written outside the application carries
CsvIds == {[t |-> 0, r |-> 1]}

\* String(Date.now()) + Math.random(): the k-th draw of the generator is k
GeneratedId(clock, draw) == [t |-> clock, r |-> draw]

\* String(Date.now())
PlanId(clock) == [t |-> clock, r |-> 0]

\* ------------------------------------------------------------------ roster
\* rows of the parsed orga.csv
RosterA ==
    << [Matricule |-> "E1", FullName |-> "Amal One", Gender |-> "Female",
        PROJET |-> "P1", CostCenter |-> "CC1"] >>

RosterB ==
    << [Matricule |-> "", FullName |-> "No Matricule", Gender |-> "Male",
        PROJET |-> "P0", CostCenter |-> "CC0"],
       [Matricule |-> " E1", FullName |-> "Amal One", Gender |-> "Female",
        PROJET |-> "P2", CostCenter |-> "CC2"],
       [Matricule |-> "E1", FullName |-> "Amal Two", Gender |-> "Male",
        PROJET |-> "P3", CostCenter |-> "CC3"] >>

Rosters == {RosterA}

\* String.prototype.trim on the identifier strings in use
Trim(s) ==
    CASE s = " E1" -> "E1"
      [] s = "E1 " -> "E1"
      [] s = " " -> ""
      [] OTHER -> s

\* index of the first element of seq satisfying Test, 0 when there is none
\* (Array.prototype.find / findIndex)
FirstIndex(seq, Test(_)) ==
    IF \E i \in 1..Len(seq) : Test(seq[i])
    THEN CHOOSE i \in 1..Len(seq) :
             Test(seq[i]) /\ \A j \in 1..(i - 1) : ~Test(seq[j])
    ELSE 0

\* what Array.prototype.find returns when no row matches
NoEmployee ==
    [Matricule |-> Undefined, FullName |-> Undefined, Gender |-> Undefined,
     PROJET |-> Undefined, CostCenter |-> Undefined]

\* the roster row at the index find stops at, or none
RowAt(orga, i) == IF i = 0 THEN NoEmployee ELSE orga[i]

\* getEmployeeById as it would be if it compared the identifier as given
getEmployeeById_untrimmed(orga, id) ==
    IF ~Truthy(id) THEN NoEmployee
    ELSE RowAt(orga, FirstIndex(orga, LAMBDA emp :
                   Truthy(emp.Matricule) /\ Trim(emp.Matricule) = id))

\* DataService.getEmployeeById: the first matching roster row, or none
getEmployeeById(orga, id) ==
    IF ~Truthy(id) THEN NoEmployee
    ELSE RowAt(orga, FirstIndex(orga, LAMBDA emp :
                   Truthy(emp.Matricule) /\ Trim(emp.Matricule) = Trim(id)))

\* ------------------------------------------------------------------- dates
\* the texts of the days of July 2024, by day
JulyTexts ==
    << "2024-07-01", "2024-07-02", "2024-07-03", "2024-07-04", "2024-07-05",
       "2024-07-06", "2024-07-07", "2024-07-08", "2024-07-09", "2024-07-10",
       "2024-07-11", "2024-07-12", "2024-07-13", "2024-07-14", "2024-07-15",
       "2024-07-16", "2024-07-17", "2024-07-18", "2024-07-19", "2024-07-20",
       "2024-07-21", "2024-07-22", "2024-07-23", "2024-07-24", "2024-07-25",
       "2024-07-26", "2024-07-27", "2024-07-28", "2024-07-29", "2024-07-30",
       "2024-07-31" >>

\* the date texts in use that are dates, with their year, month and day
DateRows ==
    { << JulyTexts[d], 2024, 7, d >> : d \in 1..31 }
    \cup { << "2024-06-30", 2024, 6, 30 >>, << "2025-01-31", 2025, 1, 31 >>,
           << "2023-12-31", 2023, 12, 31 >>, << "2024-01-01", 2024, 1, 1 >>,
           << "2024-02-29", 2024, 2, 29 >>, << "2025-06-01", 2025, 6, 1 >> }

DateTable ==
    [s \in { row[1] : row \in DateRows } |->
        LET row == CHOOSE row \in DateRows : row[1] = s
        IN [y |-> row[2], m |-> row[3], d |-> row[4]]]

\* new Date(s.replace(/-/g, '/')): year, month, day; a zero year is Invalid Date
ParseDate(s) ==
    IF s \in DOMAIN DateTable THEN DateTable[s] ELSE [y |-> 0, m |-> 0, d |-> 0]

IsValidDate(date) == date.y # 0

\* date.toLocaleString('default', { month: 'long' })
MonthLong(date) ==
    IF IsValidDate(date) THEN MONTH_ORDER[date.m] ELSE "Invalid Date"

\* the week as it would be with Math.floor(dayOfMonth / 7) + 1
WeekLabel_floor(date) ==
    IF ~IsValidDate(date) THEN "Week NaN"
    ELSE << "Week 1", "Week 2", "Week 3", "Week 4", "Week 5" >>[date.d \div 7 + 1]

\* `Week ${Math.ceil(dayOfMonth / 7)}`
WeekLabel(date) ==
    IF ~IsValidDate(date) THEN "Week NaN"
    ELSE LET n == (date.d + 6) \div 7
         IN << "Week 1", "Week 2", "Week 3", "Week 4", "Week 5" >>[n]

\* ----------------------------------------------------------- localStorage
\* a key of localStorage holds no item ("absent"), text JSON.parse rejects
\* ("garbage"), JSON of a falsy value such as null or 0 ("falsy"), JSON of a
\* truthy value that is no array ("object"), or JSON of an array ("array")
Absent == [kind |-> "absent", items |-> << >>]

Garbage == [kind |-> "garbage", items |-> << >>]

FalsyJson == [kind |-> "falsy", items |-> << >>]

ObjectJson == [kind |-> "object", items |-> << >>]

\* JSON.stringify of an in-memory collection value
Stringify(value) ==
    IF value.isArray THEN [kind |-> "array", items |-> value.items]
    ELSE ObjectJson

\* StorageService.save: setItem may throw (quota); the error is logged only
save(sto, key, data, setItemThrows) ==
    IF setItemThrows THEN sto ELSE [sto EXCEPT ![key] = Stringify(data)]

\* StorageService.load: the parsed value, or null
load(sto, key) ==
    LET data == sto[key]
    IN CASE data.kind = "absent" -> [isNull |-> TRUE, truthy |-> FALSE, isArray |-> FALSE, items |-> << >>]
         [] data.kind = "garbage" -> [isNull |-> TRUE, truthy |-> FALSE, isArray |-> FALSE, items |-> << >>]
         [] data.kind = "falsy" -> [isNull |-> FALSE, truthy |-> FALSE, isArray |-> FALSE, items |-> << >>]
         [] data.kind = "object" -> [isNull |-> FALSE, truthy |-> TRUE, isArray |-> FALSE, items |-> << >>]
         [] OTHER -> [isNull |-> FALSE, truthy |-> TRUE, isArray |-> TRUE, items |-> data.items]

\* ------------------------------------------------------------ DataService
\* The DataService object s: its four fields (nonArray names the collection
\* fields that hold a value which is no array), localStorage, the state of
\* Math.random, and the outcome of the call in progress: whether it threw
\* and the setItem calls it made.

\* the value of a collection field
Value(s, key) ==
    [isArray |-> key \notin s.nonArray,
     items |-> IF key = TRAINING_DATA THEN s.trainingData ELSE s.plannedSessions]

Raise(s) == [s EXCEPT !.raised = TRUE]

\* _saveToLocalStorage as it would be if an error of the first save escaped:
\* the second save is not reached
_saveToLocalStorage_stopsAtFailure(s, failing) ==
    IF TRAINING_DATA \in failing
    THEN [s EXCEPT !.writes = @ \o << [key |-> TRAINING_DATA, ok |-> FALSE] >>]
    ELSE [s EXCEPT !.storage = save(save(@, TRAINING_DATA, Value(s, TRAINING_DATA), FALSE),
                                    PLANNED_SESSIONS, Value(s, PLANNED_SESSIONS),
                                    PLANNED_SESSIONS \in failing),
                   !.writes = @ \o << [key |-> TRAINING_DATA, ok |-> TRUE],
                                      [key |-> PLANNED_SESSIONS,
                                       ok |-> PLANNED_SESSIONS \notin failing] >>]

\* DataService._saveToLocalStorage; failing: the keys whose setItem throws
_saveToLocalStorage(s, failing) ==
    LET sto1 == save(s.storage, TRAINING_DATA, Value(s, TRAINING_DATA),
                     TRAINING_DATA \in failing)
        sto2 == save(sto1, PLANNED_SESSIONS, Value(s, PLANNED_SESSIONS),
                     PLANNED_SESSIONS \in failing)
    IN [s EXCEPT !.storage = sto2,
                 !.writes = @ \o << [key |-> TRAINING_DATA, ok |-> TRAINING_DATA \notin failing],
                                    [key |-> PLANNED_SESSIONS, ok |-> PLANNED_SESSIONS \notin failing] >>]

\* DataService.loadFromLocalStorage
loadFromLocalStorage(s) ==
    LET td == load(s.storage, TRAINING_DATA)
        ps == load(s.storage, PLANNED_SESSIONS)
    IN [s EXCEPT !.trainingData = IF td.truthy THEN td.items ELSE << >>,
                 !.plannedSessions = IF ps.truthy THEN ps.items ELSE << >>,
                 !.nonArray = {k \in STORAGE_KEYS :
                                  LET v == IF k = TRAINING_DATA THEN td ELSE ps
                                  IN v.truthy /\ ~v.isArray}]

\* DataService.init
init(s, userName, orga) ==
    loadFromLocalStorage([s EXCEPT !.currentUser = userName, !.orgaData = orga])

\* the four roster fields of _enrichRecord, given what getEmployeeById found
WithEmployee(record, employee) ==
    [record EXCEPT
        !.FullName = IF employee # NoEmployee THEN employee.FullName ELSE "Unknown",
        !.Gender = IF employee # NoEmployee THEN employee.Gender ELSE "Unknown",
        !.Project = IF employee # NoEmployee THEN employee.PROJET ELSE "Unknown",
        !.CostCenter = IF employee # NoEmployee THEN employee.CostCenter ELSE "Unknown"]

\* the two date fields of _enrichRecord, given the parsed date
WithDate(record, date) ==
    [record EXCEPT !.Month = MonthLong(date), !.Week = WeekLabel(date)]

\* DataService._enrichRecord: the enriched record, or a TypeError when the
\* record carries no 'Training Date' (undefined.replace)
_enrichRecord(orga, record) ==
    IF record.TrainingDate = Undefined
    THEN [raised |-> TRUE,
          record |-> WithEmployee(record, getEmployeeById(orga, record.TraineeId))]
    ELSE [raised |-> FALSE,
          record |-> WithDate(WithEmployee(record,
                                           getEmployeeById(orga, record.TraineeId)),
                              ParseDate(record.TrainingDate))]

\* the end of addRecord: unshift and save, given what _enrichRecord returned
Unshift(s1, e, failing) ==
    IF e.raised \/ TRAINING_DATA \in s1.nonArray THEN Raise(s1)
    ELSE _saveToLocalStorage([s1 EXCEPT !.trainingData = << e.record >> \o @], failing)

\* addRecord as it would be if it pushed the record at the end
addRecord_pushes(s, record, clock, failing) ==
    LET e == _enrichRecord(s.orgaData,
                 [record EXCEPT !.Id = GeneratedId(clock, s.rnd + 1),
                                !.Trainer = IF Truthy(@) THEN @ ELSE s.currentUser])
    IN IF e.raised \/ TRAINING_DATA \in s.nonArray THEN Raise([s EXCEPT !.rnd = @ + 1])
       ELSE _saveToLocalStorage([s EXCEPT !.rnd = @ + 1,
                                          !.trainingData = Append(@, e.record)], failing)

\* DataService.addRecord
addRecord(s, record, clock, failing) ==
    Unshift([s EXCEPT !.rnd = @ + 1],
            _enrichRecord(s.orgaData,
                [record EXCEPT !.Id = GeneratedId(clock, s.rnd + 1),
                               !.Trainer = IF Truthy(@) THEN @ ELSE s.currentUser]),
            failing)

\* updateRecord as it would be without the line that preserves the trainer
updateRecord_trustsPayload(s, updatedRecord, failing) ==
    IF TRAINING_DATA \in s.nonArray THEN Raise(s)
    ELSE LET index == FirstIndex(s.trainingData, LAMBDA record : record.Id = updatedRecord.Id)
         IN IF index = 0 THEN s
            ELSE LET e == _enrichRecord(s.orgaData, updatedRecord)
                 IN IF e.raised THEN Raise(s)
                    ELSE _saveToLocalStorage(
                             [s EXCEPT !.trainingData[index] = e.record], failing)

\* updateRecord as it would be if it stored a record it does not find
updateRecord_upserts(s, updatedRecord, failing) ==
    IF TRAINING_DATA \in s.nonArray THEN Raise(s)
    ELSE LET index == FirstIndex(s.trainingData, LAMBDA record : record.Id = updatedRecord.Id)
             r1 == [updatedRecord EXCEPT
                        !.Trainer = IF index = 0 THEN s.currentUser
                                    ELSE s.trainingData[index].Trainer]
             e == _enrichRecord(s.orgaData, r1)
         IN IF e.raised THEN Raise(s)
            ELSE _saveToLocalStorage(
                     IF index = 0 THEN [s EXCEPT !.trainingData = Append(@, e.record)]
                     ELSE [s EXCEPT !.trainingData[index] = e.record],
                     failing)

\* the end of updateRecord: assignment and save, given what _enrichRecord
\* returned
AssignAt(s, index, e, failing) ==
    IF e.raised THEN Raise(s)
    ELSE _saveToLocalStorage([s EXCEPT !.trainingData[index] = e.record], failing)

\* the body of updateRecord, given what findIndex returned (0: no record)
UpdateAt(s, index, updatedRecord, failing) ==
    IF index = 0 THEN s
    ELSE AssignAt(s, index,
                  _enrichRecord(s.orgaData,
                      [updatedRecord EXCEPT !.Trainer = s.trainingData[index].Trainer]),
                  failing)

\* DataService.updateRecord
updateRecord(s, updatedRecord, failing) ==
    IF TRAINING_DATA \in s.nonArray THEN Raise(s)
    ELSE UpdateAt(s,
                  FirstIndex(s.trainingData, LAMBDA record : record.Id = updatedRecord.Id),
                  updatedRecord, failing)

\* deleteRecord as it would be if it removed the first record when it finds
\* none with the identifier
deleteRecord_dropsHead(s, id, failing) ==
    IF TRAINING_DATA \in s.nonArray THEN Raise(s)
    ELSE _saveToLocalStorage(
             [s EXCEPT !.trainingData =
                  IF id \in { @[i].Id : i \in 1..Len(@) }
                  THEN SelectSeq(@, LAMBDA record : record.Id # id)
                  ELSE IF @ = << >> THEN @ ELSE Tail(@)],
             failing)

\* DataService.deleteRecord
deleteRecord(s, id, failing) ==
    IF TRAINING_DATA \in s.nonArray THEN Raise(s)
    ELSE _saveToLocalStorage(
             [s EXCEPT !.trainingData = SelectSeq(@, LAMBDA record : record.Id # id)],
             failing)

\* the number of Math.random calls importData makes for the first i rows
FreshUpTo(rows, i) == Cardinality({j \in 1..i : rows[j].Id = NoId})

\* the callback of newData.map in importData, applied to row i
MapRow(rows, i, user, orga, clock, rnd) ==
    _enrichRecord(orga,
        [rows[i] EXCEPT !.Trainer = user,
                        !.Id = IF @ = NoId
                               THEN GeneratedId(clock, rnd + FreshUpTo(rows, i)) ELSE @])

\* newData.map, given the rows whose callback throws: the mapped records, the
\* state of Math.random afterwards, and whether a row threw (map stops there)
MapRows(rows, mapped, throwing, rnd) ==
    IF throwing = {}
    THEN [raised |-> FALSE,
          records |-> [i \in 1..Len(rows) |-> mapped[i].record],
          rnd |-> rnd + FreshUpTo(rows, Len(rows))]
    ELSE [raised |-> TRUE,
          records |-> << >>,
          rnd |-> rnd + FreshUpTo(rows,
                        CHOOSE i \in throwing : \A j \in throwing : i <= j)]

ImportRows(rows, user, orga, clock, rnd) ==
    MapRows(rows,
            [i \in 1..Len(rows) |-> MapRow(rows, i, user, orga, clock, rnd)],
            {i \in 1..Len(rows) : MapRow(rows, i, user, orga, clock, rnd).raised},
            rnd)

\* the end of importData: assignment and save, given what map returned
ReplaceWith(s, m, failing) ==
    IF m.raised THEN Raise([s EXCEPT !.rnd = m.rnd])
    ELSE _saveToLocalStorage(
             [s EXCEPT !.rnd = m.rnd,
                       !.trainingData = m.records,
                       !.nonArray = @ \ {TRAINING_DATA}],
             failing)

\* DataService.importData
importData(s, newData, clock, failing) ==
    ReplaceWith(s, ImportRows(newData, s.currentUser, s.orgaData, clock, s.rnd), failing)

\* addPlan as it would be if it closed the sessions planned before
addPlan_closesEarlier(s, plan, clock, failing) ==
    IF plan.plannedDate = Undefined \/ PLANNED_SESSIONS \in s.nonArray THEN Raise(s)
    ELSE _saveToLocalStorage(
             [s EXCEPT !.plannedSessions =
                  Append([i \in 1..Len(@) |-> [@[i] EXCEPT !.status = "Completed"]],
                         [plan EXCEPT !.Id = PlanId(clock),
                                      !.Month = MonthLong(ParseDate(plan.plannedDate))])],
             failing)

\* DataService.addPlan
addPlan(s, plan, clock, failing) ==
    IF plan.plannedDate = Undefined \/ PLANNED_SESSIONS \in s.nonArray THEN Raise(s)
    ELSE LET p1 == [plan EXCEPT !.Id = PlanId(clock),
                                !.Month = MonthLong(ParseDate(plan.plannedDate))]
         IN _saveToLocalStorage([s EXCEPT !.plannedSessions = Append(@, p1)], failing)

\* DataService.updatePlan
updatePlan(s, updatedPlan, failing) ==
    IF PLANNED_SESSIONS \in s.nonArray THEN Raise(s)
    ELSE LET index == FirstIndex(s.plannedSessions, LAMBDA p : p.Id = updatedPlan.Id)
         IN IF index = 0 THEN s
            ELSE IF updatedPlan.plannedDate = Undefined THEN Raise(s)
            ELSE LET p1 == [updatedPlan EXCEPT
                                !.Month = MonthLong(ParseDate(updatedPlan.plannedDate))]
                 IN _saveToLocalStorage(
                        [s EXCEPT !.plannedSessions[index] = p1], failing)

\* DataService.deletePlan
deletePlan(s, id, failing) ==
    IF PLANNED_SESSIONS \in s.nonArray THEN Raise(s)
    ELSE _saveToLocalStorage(
             [s EXCEPT !.plannedSessions = SelectSeq(@, LAMBDA p : p.Id # id)],
             failing)

\* new Date(s) - as a number: days on a calendar of 31-day months, which
\* orders dates as the milliseconds do; 0 stands for NaN (Invalid Date)
Time(s) == ParseDate(s).y * 372 + ParseDate(s).m * 31 + ParseDate(s).d

\* the comparator of getTrainingLog, as Array.prototype.sort reads it: a NaN
\* difference counts as +0
ByDateDescending(a, b) ==
    IF Time(a.TrainingDate) = 0 \/ Time(b.TrainingDate) = 0 THEN 0
    ELSE Time(b.TrainingDate) - Time(a.TrainingDate)

\* the comparator is consistent on the elements of seq: comparing equal is
\* transitive (an Invalid Date compares equal to every date)
Consistent(seq) ==
    \A i, j, k \in 1..Len(seq) :
        ByDateDescending(seq[i], seq[j]) = 0 /\ ByDateDescending(seq[j], seq[k]) = 0
            => ByDateDescending(seq[i], seq[k]) = 0

\* the orders of the indices of a sequence of n elements
Orders(n) ==
    { p \in [1..n -> 1..n] : \A i, j \in 1..n : i # j => p[i] # p[j] }

\* DataService.getTrainingLog: the arrays the call may return.  The sort is
\* stable under a consistent comparator and implementation-defined otherwise.
getTrainingLog(trainingData) ==
    { [i \in 1..Len(trainingData) |-> trainingData[p[i]]] :
        p \in { q \in Orders(Len(trainingData)) :
                    Consistent(trainingData) =>
                        \A i, j \in 1..Len(trainingData) :
                            i < j =>
                                \/ ByDateDescending(trainingData[q[i]], trainingData[q[j]]) < 0
                                \/ /\ ByDateDescending(trainingData[q[i]], trainingData[q[j]]) = 0
                                   /\ q[i] < q[j] } }

\* --------------------------------------------------------------------- CSV
\* the keys a record object may carry
RecordKeys ==
    {"Id", "Trainer", "TrainingDate", "TraineeId", "TrainingType", "RefreshmentType",
     "Hours", "Sector", "FullName", "Gender", "Project", "CostCenter", "Month", "Week"}

\* Object.keys of a record: the Id apart, a key the object lacks reads Undefined
KeysOf(record) == {"Id"} \cup {k \in RecordKeys \ {"Id"} : record[k] # Undefined}

\* the text of a cell Papa.unparse writes for a value: nothing for undefined
Cell(value) == IF value = Undefined THEN "" ELSE value

\* Papa.unparse(data) for an array of objects: the columns are the keys of
\* the first object, every row gives its values for those columns
unparse(data) ==
    IF data = << >> THEN [fields |-> {}, rows |-> << >>]
    ELSE [fields |-> KeysOf(data[1]),
          rows |-> [i \in 1..Len(data) |->
                       [k \in KeysOf(data[1]) |->
                           IF k = "Id" THEN data[i].Id ELSE Cell(data[i][k])]]]

\* Papa.parse(file, { header: true }): one object a row, keyed by the header
parse(csv) ==
    [i \in 1..Len(csv.rows) |->
        [k \in RecordKeys |->
            IF k \in csv.fields THEN csv.rows[i][k]
            ELSE IF k = "Id" THEN NoId ELSE Undefined]]

\* ------------------------------------------------------------------ inputs
\* a training record as the form or a CSV row gives it: no derived field yet
Record(id, trainer, date, trainee, type, refreshment, hours, sector) ==
    [Id |-> id, Trainer |-> trainer, TrainingDate |-> date, TraineeId |-> trainee,
     TrainingType |-> type, RefreshmentType |-> refreshment, Hours |-> hours,
     Sector |-> sector, FullName |-> Undefined, Gender |-> Undefined,
     Project |-> Undefined, CostCenter |-> Undefined, Month |-> Undefined,
     Week |-> Undefined]

\* payloads of addRecord and updateRecord (the date input gives a string)
RecordPayloads(ids) ==
    { Record(id, trainer, "2024-07-01", "E1", "Qualification", "", "2", "S1") :
          id \in ids, trainer \in {Undefined, "Kamal Hbahem"} }
    \cup
    { Record(id, trainer, "", "X9", "Refreshment", "", "0", "") :
          id \in ids, trainer \in {Undefined, "Kamal Hbahem"} }

\* rows of an imported CSV file: a row may lack any column
CsvRows(ids) ==
    { Record(id, "Kamal Hbahem", "2024-06-30", "E1", "Qualification", "", "2", "S1") :
          id \in ids }
    \cup
    { Record(NoId, Undefined, Undefined, "X9", "Refreshment", "", "0", "") }

\* a planned session as the planning form gives it
Plan(id, date, trainees, type, status) ==
    [Id |-> id, plannedDate |-> date, trainer |-> "Nora Sadki", trainees |-> trainees,
     trainingType |-> type, status |-> status, Month |-> Undefined]

PlanPayloads(ids) ==
    { Plan(id, "2024-07-08", << "E1" >>, "Qualification", status) :
          id \in ids, status \in {"Planned", "Completed"} }

\* sequences over S of length at most n
SeqsUpTo(S, n) == UNION { [1..k -> S] : k \in 0..n }

\* the fields of the training form
FormInputs ==
    { [date |-> "2024-07-01", trainee |-> "E1", type |-> "Qualification",
       refreshment |-> "", hours |-> "2", sector |-> "S1"],
      [date |-> "2024-07-01", trainee |-> "E1", type |-> "Qualification",
       refreshment |-> "", hours |-> "0", sector |-> "S1"] }

\* the fields of the planning form
PlanInputs ==
    { [date |-> "2024-07-08", type |-> "Qualification", status |-> "Planned"] }

\* ------------------------------------------------------------------- state
VARIABLES
    currentUser,      \* DataService.currentUser
    orgaData,         \* DataService.orgaData
    trainingData,     \* DataService.trainingData
    plannedSessions,  \* DataService.plannedSessions
    nonArray,         \* the collection fields holding a value that is no array
    storage,          \* localStorage, by key
    now,              \* Date.now()
    rnd,              \* number of Math.random() draws made
    failures,         \* number of setItem calls that threw
    started,          \* App.start has run: the components exist
    parsing,          \* Papa.parse calls in flight, with what they will deliver
    currentView,      \* Navigation.currentView
    timers,           \* renders deferred by setTimeout(..., 0), oldest first
    isEditing,        \* TrainingForm.isEditing
    recordIdInput,    \* value of the hidden input 'record-id'
    logRows,          \* identifiers of the rows of the log table
    planIsEditing,    \* Planning.isEditing
    planIdInput,      \* value of the hidden input 'plan-id'
    selectedTrainees, \* Planning.selectedTrainees, in insertion order
    planRows,         \* identifiers of the rows of the planned-sessions table
    modalVisible,     \* the confirmation modal is shown
    confirmListeners, \* click listeners of the button 'modal-confirm'
    cancelListeners,  \* number of click listeners of the button 'modal-cancel'
    shown,            \* what each view component rendered last, by component
    staleForms,       \* isEditing of the TrainingForm objects of earlier starts
    calendarDate,     \* Calendar.currentDate
    result,           \* what the query of the last step returned
    last              \* the call the last step made on the store, and its outcome

storeVars ==
    << currentUser, orgaData, trainingData, plannedSessions, nonArray, storage,
       rnd, failures >>

uiVars ==
    << started, parsing, currentView, timers, isEditing, recordIdInput, logRows,
       planIsEditing, planIdInput, selectedTrainees, planRows, modalVisible,
       confirmListeners, cancelListeners, shown, staleForms, calendarDate >>

vars == << storeVars, uiVars, now, result, last >>

\* new Date() when the page is loaded, as year, month (1 to 12) and day
Today == [y |-> 2024, m |-> 7, d |-> 8]

\* the components that draw charts and tables from the collections
CHARTED == {"dashboard", "performance", "yearlyReport", "analysis"}

\* a step that is no query returns nothing
NoResult == [of |-> "none"]

\* a component that has not rendered yet
NotRendered == [rendered |-> FALSE]

\* the application before a step: every object's fields, and the outcome of
\* the step so far (nothing called, nothing thrown, nothing written)
State ==
    [currentUser |-> currentUser, orgaData |-> orgaData,
     trainingData |-> trainingData, plannedSessions |-> plannedSessions,
     nonArray |-> nonArray, storage |-> storage, rnd |-> rnd,
     started |-> started, parsing |-> parsing, currentView |-> currentView,
     timers |-> timers, isEditing |-> isEditing, recordIdInput |-> recordIdInput,
     logRows |-> logRows, planIsEditing |-> planIsEditing,
     planIdInput |-> planIdInput, selectedTrainees |-> selectedTrainees,
     planRows |-> planRows, modalVisible |-> modalVisible,
     confirmListeners |-> confirmListeners, cancelListeners |-> cancelListeners,
     shown |-> shown, staleForms |-> staleForms, calendarDate |-> calendarDate,
     result |-> NoResult,
     called |-> "none", calledId |-> NoId, raised |-> FALSE, writes |-> << >>]

Failed(writes) == Cardinality({i \in 1..Len(writes) : ~writes[i].ok})

\* the state after a step that ended in a
Becomes(a) ==
    /\ currentUser' = a.currentUser
    /\ orgaData' = a.orgaData
    /\ trainingData' = a.trainingData
    /\ plannedSessions' = a.plannedSessions
    /\ nonArray' = a.nonArray
    /\ storage' = a.storage
    /\ rnd' = a.rnd
    /\ failures' = failures + Failed(a.writes)
    /\ started' = a.started
    /\ parsing' = a.parsing
    /\ currentView' = a.currentView
    /\ timers' = a.timers
    /\ isEditing' = a.isEditing
    /\ recordIdInput' = a.recordIdInput
    /\ logRows' = a.logRows
    /\ planIsEditing' = a.planIsEditing
    /\ planIdInput' = a.planIdInput
    /\ selectedTrainees' = a.selectedTrainees
    /\ planRows' = a.planRows
    /\ modalVisible' = a.modalVisible
    /\ confirmListeners' = a.confirmListeners
    /\ cancelListeners' = a.cancelListeners
    /\ shown' = a.shown
    /\ staleForms' = a.staleForms
    /\ calendarDate' = a.calendarDate
    /\ result' = a.result
    /\ last' = [op |-> a.called, id |-> a.calledId, raised |-> a.raised,
                writes |-> a.writes]
    /\ UNCHANGED now

\* a call of a DataService method made by the step
Calling(a, op, id) == [a EXCEPT !.called = op, !.calledId = id]

Ids(seq) == { seq[i].Id : i \in 1..Len(seq) }

\* an identifier no record and no plan carries
AbsentId == [t |-> 0, r |-> 9]

\* the setItem calls that may throw during one step
Failing == { f \in SUBSET STORAGE_KEYS : failures + Cardinality(f) <= MaxFailures }

\* the page as loaded: new App() with its new DataService(), the login form
\* shown, the confirmation modal hidden
PageLoaded ==
    /\ currentUser = ""
    /\ orgaData = << >>
    /\ trainingData = << >>
    /\ plannedSessions = << >>
    /\ nonArray = {}
    /\ now = 1
    /\ rnd = 0
    /\ failures = 0
    /\ started = FALSE
    /\ parsing = << >>
    /\ currentView = ""
    /\ timers = << >>
    /\ isEditing = FALSE
    /\ recordIdInput = NoId
    /\ logRows = {}
    /\ planIsEditing = FALSE
    /\ planIdInput = NoId
    /\ selectedTrainees = << >>
    /\ planRows = {}
    /\ modalVisible = FALSE
    /\ confirmListeners = << >>
    /\ cancelListeners = 0
    /\ shown = [c \in CHARTED |-> NotRendered]
    /\ staleForms = << >>
    /\ calendarDate = Today
    /\ result = NoResult
    /\ last = [op |-> "none", id |-> NoId, raised |-> FALSE, writes |-> << >>]

\* localStorage holds nothing, or text that does not parse
Init ==
    /\ PageLoaded
    /\ storage \in [STORAGE_KEYS -> {Absent, Garbage}]

\* --------------------------------------------------------------- the views
VIEWS ==
    {"dashboard", "log", "add", "performance", "yearly-report", "analysis", "planning"}

\* keys of App.components whose component has a render method
COMPONENTS ==
    {"dashboard", "trainingLog", "trainingForm", "planning", "performance",
     "yearlyReport", "analysis"}

\* Validators.isPositiveNumber on the hours strings in use
isPositiveNumber(value) == value \in {"2", "1.5"}

\* Validators.validateTrainingRecord: the error messages
validateTrainingRecord(record) ==
    (IF ~Truthy(record.TrainingDate) THEN {"Training Date is required."} ELSE {})
    \cup (IF ~Truthy(record.TraineeId) THEN {"Trainee's ID Number is required."} ELSE {})
    \cup (IF ~Truthy(record.TrainingType) THEN {"Training Type is required."} ELSE {})
    \cup (IF ~isPositiveNumber(record.Hours)
          THEN {"Number of Training Hours must be a positive number."} ELSE {})
    \cup (IF record.TrainingType = "Refreshment" /\ ~Truthy(record.RefreshmentType)
          THEN {"Refreshment Type is required for Refreshment training."} ELSE {})

\* what a confirmation dialog runs when confirmed: onConfirm
Callback(kind, id, data) == [kind |-> kind, id |-> id, data |-> data]

NoCallback == Callback("undefined", NoId, << >>)

\* Modal.show as it would be if the buttons were not replaced: the listeners
\* of the dialogs shown before stay attached
ModalShow_keepsListeners(a, onConfirm) ==
    [a EXCEPT !.confirmListeners = Append(@, onConfirm),
              !.cancelListeners = @ + 1,
              !.modalVisible = TRUE]

\* Modal.show: both buttons are replaced by clones, which carry no listener,
\* and the new handlers are attached
ModalShow(a, onConfirm) ==
    [a EXCEPT !.confirmListeners = << onConfirm >>,
              !.cancelListeners = 1,
              !.modalVisible = TRUE]

\* Modal.hide
ModalHide(a) == [a EXCEPT !.modalVisible = FALSE]

\* TrainingForm.resetForm
resetForm(a) == [a EXCEPT !.isEditing = FALSE, !.recordIdInput = NoId]

\* TrainingForm.render as it would be if it left the form alone when it is
\* given no record
TrainingFormRender_keepsMode(a, recordId) ==
    IF recordId = NoId THEN a
    ELSE IF TRAINING_DATA \in a.nonArray THEN Raise(a)
    ELSE IF recordId \in Ids(a.trainingData)
         THEN [a EXCEPT !.isEditing = TRUE, !.recordIdInput = recordId]
         ELSE resetForm(a)

\* TrainingForm.render
TrainingFormRender(a, recordId) ==
    IF recordId = NoId THEN resetForm(a)
    ELSE IF TRAINING_DATA \in a.nonArray THEN Raise(a)
    ELSE IF recordId \in Ids(a.trainingData)
         THEN [a EXCEPT !.isEditing = TRUE, !.recordIdInput = recordId]
         ELSE resetForm(a)

\* TrainingLog.render: the table shows the records of getTrainingLog
TrainingLogRender(a) ==
    IF TRAINING_DATA \in a.nonArray THEN Raise(a)
    ELSE [a EXCEPT !.logRows = Ids(a.trainingData)]

\* Planning.resetPlanForm
resetPlanForm(a) ==
    [a EXCEPT !.planIsEditing = FALSE, !.planIdInput = NoId,
              !.selectedTrainees = << >>]

\* Planning.render
PlanningRender(a, planId) ==
    IF PLANNED_SESSIONS \in a.nonArray THEN Raise(a)
    ELSE LET a1 == [a EXCEPT !.planRows = Ids(a.plannedSessions)]
             index == FirstIndex(a.plannedSessions, LAMBDA p : p.Id = planId)
         IN IF planId = NoId THEN resetPlanForm(a1)
            ELSE IF index = 0 THEN a1
            ELSE [a1 EXCEPT !.planIsEditing = TRUE,
                            !.planIdInput = a.plannedSessions[index].Id,
                            !.selectedTrainees = a.plannedSessions[index].trainees]

\* App.renderView: this.components[view] exists for the views named like
\* their component; 'add' is rendered at once; any other view only warns
renderView(a, view, param) ==
    IF view \in COMPONENTS
    THEN [a EXCEPT !.timers = Append(@, [view |-> view, param |-> param])]
    ELSE IF view = "add" THEN TrainingFormRender(a, param)
    ELSE a

\* Navigation.setView, with the onNavigate callback App.start gives it
setView(a, viewId) ==
    IF viewId \in VIEWS
    THEN renderView([a EXCEPT !.currentView = viewId], viewId, NoId)
    ELSE a

\* what a handler does after a call that may throw: the rest runs unless it
\* threw
Unless(a1, Rest(_)) == IF a1.raised THEN a1 ELSE Rest(a1)

\* App.editRecord
editRecord(a, recordId) ==
    Unless(setView(a, "add"), LAMBDA a1 : renderView(a1, "add", recordId))

\* the call TrainingForm.handleSubmit makes on the store
SubmitRecord(a, record, clock, failing) ==
    IF a.isEditing
    THEN updateRecord(Calling(a, "updateRecord", record.Id), record, failing)
    ELSE addRecord(Calling(a, "addRecord", NoId), record, clock, failing)

\* TrainingForm.handleSubmit
handleSubmit(a, input, clock, failing) ==
    Unless(SubmitRecord(a,
                        Record(a.recordIdInput, Undefined, input.date, input.trainee,
                               input.type, input.refreshment, input.hours, input.sector),
                        clock, failing),
           LAMBDA a1 : setView(a1, "log"))

\* handleSubmit of the TrainingForm object of the k-th earlier start: it reads
\* the same fields of the page, and the isEditing of its own object
StaleSubmit(a, k, input, clock, failing) ==
    [handleSubmit([a EXCEPT !.isEditing = a.staleForms[k]], input, clock, failing)
        EXCEPT !.isEditing = a.isEditing]

\* the listeners of the earlier starts, in the order they were added
RECURSIVE StaleSubmits(_, _, _, _, _)
StaleSubmits(a, k, input, clock, failing) ==
    IF k > Len(a.staleForms) THEN a
    ELSE StaleSubmits(StaleSubmit(a, k, input, clock, failing), k + 1,
                      input, clock, failing)

\* the 'submit' event of 'training-form' runs every listener TrainingForm.init
\* has added to it
submitEvent(a, input, clock, failing) ==
    handleSubmit(StaleSubmits(a, 1, input, clock, failing), input, clock, failing)

\* the 'click' event of 'cancel-edit' runs resetForm of every TrainingForm
cancelEditEvent(a) ==
    [resetForm(a) EXCEPT !.staleForms = [k \in DOMAIN @ |-> FALSE]]

\* the 'click' event of a link of the sidebar runs setView of every Navigation
RECURSIVE navEvent(_, _, _)
navEvent(a, viewId, k) ==
    IF k > Len(a.staleForms) THEN setView(a, viewId)
    ELSE navEvent(setView(a, viewId), viewId, k + 1)

\* the call Planning.handlePlanFormSubmit makes on the store
SubmitPlan(a, plan, clock, failing) ==
    IF a.planIsEditing
    THEN updatePlan(Calling(a, "updatePlan", plan.Id), plan, failing)
    ELSE addPlan(Calling(a, "addPlan", NoId), plan, clock, failing)

\* Planning.handlePlanFormSubmit
handlePlanFormSubmit(a, input, clock, failing) ==
    IF a.selectedTrainees = << >> THEN ModalShow(a, Callback("noop", NoId, << >>))
    ELSE Unless(SubmitPlan(a,
                           [Id |-> a.planIdInput, plannedDate |-> input.date,
                            trainer |-> a.currentUser, trainees |-> a.selectedTrainees,
                            trainingType |-> input.type, status |-> input.status,
                            Month |-> Undefined],
                           clock, failing),
                LAMBDA a1 : PlanningRender(resetPlanForm(a1), NoId))

\* the onConfirm callbacks: TrainingLog.confirmDelete, Planning.confirmDeletePlan,
\* the import listener of App.setupGlobalEventListeners, () => {}, and none
RunCallback(a, onConfirm, clock, failing) ==
    CASE onConfirm.kind = "deleteRecord" ->
             Unless(deleteRecord(Calling(a, "deleteRecord", onConfirm.id),
                                 onConfirm.id, failing),
                    LAMBDA a1 : TrainingLogRender(a1))
      [] onConfirm.kind = "deletePlan" ->
             Unless(deletePlan(Calling(a, "deletePlan", onConfirm.id),
                               onConfirm.id, failing),
                    LAMBDA a1 : PlanningRender(a1, NoId))
      [] onConfirm.kind = "importData" ->
             Unless(importData(Calling(a, "importData", NoId), onConfirm.data,
                               clock, failing),
                    LAMBDA a1 : renderView(a1, a1.currentView, NoId))
      [] OTHER -> a

\* the end of confirmHandler: the modal is hidden unless onConfirm threw;
\* raisedBefore: a listener that ran earlier in the same click threw
Settle(a1, raisedBefore) ==
    IF a1.raised THEN a1
    ELSE [ModalHide(a1) EXCEPT !.raised = raisedBefore]

\* confirmHandler, the listener Modal.show attaches to 'modal-confirm'
confirmHandler(a, onConfirm, clock, failing) ==
    Settle(RunCallback([a EXCEPT !.raised = FALSE], onConfirm, clock, failing), a.raised)

\* the listeners of 'modal-confirm' from the i-th on, run in order of attachment
RECURSIVE RunListeners(_, _, _, _, _)
RunListeners(a, listeners, i, clock, failing) ==
    IF i > Len(listeners) THEN a
    ELSE RunListeners(confirmHandler(a, listeners[i], clock, failing),
                      listeners, i + 1, clock, failing)

\* a click on 'modal-confirm': every listener attached runs, once
confirmClick(a, clock, failing) ==
    RunListeners([a EXCEPT !.confirmListeners = << >>], a.confirmListeners, 1,
                 clock, failing)

\* a click on 'modal-cancel': cancelHandler
cancelClick(a) ==
    IF a.cancelListeners = 0 THEN a
    ELSE ModalHide([a EXCEPT !.cancelListeners = 0])

\* the render that ends App.start and the import callback
RenderCurrent(a) == renderView(a, a.currentView, NoId)

\* App.start: it constructs the components anew, and each constructor adds
\* its listeners to the page; the listeners of the components of an earlier
\* start stay on the page
start(a, userName, orga) ==
    RenderCurrent([init(Calling(a, "init", NoId), userName, orga) EXCEPT
                       !.started = TRUE, !.currentView = "dashboard",
                       !.isEditing = FALSE, !.planIsEditing = FALSE,
                       !.selectedTrainees = << >>,
                       !.staleForms = IF a.started THEN Append(@, a.isEditing) ELSE @,
                       !.calendarDate = Today])

\* App.handleLogin
handleLogin(a, userName, orgaFile) ==
    IF userName \notin AUTHORIZED_TRAINERS \/ orgaFile = << >>
    THEN ModalShow(a, NoCallback)
    ELSE [a EXCEPT !.parsing = Append(@, [what |-> "login", userName |-> userName,
                                          data |-> orgaFile[1]])]

\* ----------------------------------------------------- calls on the store
\* App.start calls init before it constructs any component that uses the store
Initialized == currentUser # ""

DsInit ==
    \E userName \in LoginNames \cap AUTHORIZED_TRAINERS, orga \in Rosters :
        Becomes(init(Calling(State, "init", NoId), userName, orga))

AddRecord ==
    /\ Initialized
    /\ Len(trainingData) < MaxRecords
    /\ rnd < MaxRandom
    /\ \E record \in RecordPayloads({NoId}), failing \in Failing :
           Becomes(addRecord(Calling(State, "addRecord", NoId), record, now, failing))

UpdateRecord ==
    /\ Initialized
    /\ \E record \in RecordPayloads(Ids(trainingData) \cup {AbsentId}),
          failing \in Failing :
           Becomes(updateRecord(Calling(State, "updateRecord", record.Id), record, failing))

DeleteRecord ==
    /\ Initialized
    /\ \E id \in Ids(trainingData) \cup {AbsentId}, failing \in Failing :
           Becomes(deleteRecord(Calling(State, "deleteRecord", id), id, failing))

\* an import that stays within the bound on Math.random
BoundedImport(a) == a.rnd <= MaxRandom /\ Becomes(a)

ImportData ==
    /\ Initialized
    /\ \E newData \in SeqsUpTo(CsvRows({NoId} \cup CsvIds), MaxRows),
          failing \in Failing :
           BoundedImport(importData(Calling(State, "importData", NoId), newData,
                                    now, failing))

AddPlan ==
    /\ Initialized
    /\ Len(plannedSessions) < MaxPlans
    /\ \E plan \in PlanPayloads({NoId}), failing \in Failing :
           Becomes(addPlan(Calling(State, "addPlan", NoId), plan, now, failing))

UpdatePlan ==
    /\ Initialized
    /\ \E plan \in PlanPayloads(Ids(plannedSessions) \cup {AbsentId}),
          failing \in Failing :
           Becomes(updatePlan(Calling(State, "updatePlan", plan.Id), plan, failing))

DeletePlan ==
    /\ Initialized
    /\ \E id \in Ids(plannedSessions) \cup {AbsentId}, failing \in Failing :
           Becomes(deletePlan(Calling(State, "deletePlan", id), id, failing))

\* the millisecond clock advances
Tick ==
    /\ now < MaxClock
    /\ now' = now + 1
    /\ last' = [op |-> "none", id |-> NoId, raised |-> FALSE, writes |-> << >>]
    /\ result' = NoResult
    /\ UNCHANGED << storeVars, uiVars >>

Next ==
    \/ DsInit
    \/ AddRecord
    \/ UpdateRecord
    \/ DeleteRecord
    \/ ImportData
    \/ AddPlan
    \/ UpdatePlan
    \/ DeletePlan
    \/ Tick

\* the store driven through its methods
Spec == Init /\ [][Next]_vars

\* ------------------------------------------------------- the user's events
\* The modal covers the page: while it is shown the user answers it before
\* any other click.  What the user types as trainer name, and the views the
\* user visits:
TypedNames == LoginNames \cup {"Mallory"}

NavViews == {"log", "add", "planning"}

\* the files the user imports hold one row
CsvFiles == { << r >> : r \in CsvRows(CsvIds) }

\* every setItem call of the session succeeds; Spec explores the failing ones
Succeeding == { {} }

\* the step stays within the bounds of the model
WithinBounds(a) ==
    /\ Len(a.trainingData) <= MaxRecords \/ Len(a.trainingData) <= Len(trainingData)
    /\ Len(a.plannedSessions) <= MaxPlans
    /\ a.rnd <= MaxRandom
    /\ Len(a.timers) <= MaxTimers
    /\ Len(a.parsing) <= MaxParsing

\* a step of the application within the bounds
Step(a) == WithinBounds(a) /\ Becomes(a)

Without(seq, i) == SubSeq(seq, 1, i - 1) \o SubSeq(seq, i + 1, Len(seq))

\* a click on 'login-btn' while the login form is shown and no roster file
\* is being parsed
LoginClick ==
    /\ ~modalVisible
    /\ ~started
    /\ \A i \in 1..Len(parsing) : parsing[i].what # "login"
    /\ \E userName \in TypedNames, orgaFile \in {<< >>} \cup {<< r >> : r \in Rosters} :
           Step(handleLogin(State, userName, orgaFile))

\* Papa.parse delivers: the 'complete' callbacks of handleLogin and importCSV
ParseComplete ==
    \E i \in 1..Len(parsing) :
        LET job == parsing[i]
            a0 == [State EXCEPT !.parsing = Without(@, i)]
            a == IF job.what = "login" THEN start(a0, job.userName, job.data)
                 ELSE ModalShow(a0, Callback("importData", NoId, job.data))
        IN WithinBounds(a) /\ Becomes(a)

\* Papa.parse fails: the 'error' callbacks
ParseError ==
    \E i \in 1..Len(parsing) :
        LET job == parsing[i]
            a0 == [State EXCEPT !.parsing = Without(@, i)]
        IN Becomes(IF job.what = "login" THEN ModalShow(a0, NoCallback) ELSE a0)

\* a click on a link of the sidebar
NavClick ==
    /\ ~modalVisible
    /\ started
    /\ \E viewId \in NavViews :
           Step(navEvent(State, viewId, 1))

\* the 'submit' event of the training form
SubmitForm ==
    /\ ~modalVisible
    /\ started
    /\ currentView = "add"
    /\ \E input \in FormInputs, failing \in Succeeding :
           Step(submitEvent(State, input, now, failing))

\* a click on 'cancel-edit', shown while a record is edited
CancelEditClick ==
    /\ ~modalVisible
    /\ started
    /\ currentView = "add"
    /\ isEditing
    /\ Becomes(cancelEditEvent(State))

\* a click on 'clear-filters' of the log view
ClearFiltersClick ==
    /\ ~modalVisible
    /\ started
    /\ currentView = "log"
    /\ Becomes(TrainingLogRender(State))

\* a click on the Edit button of a row of the log table
EditClick ==
    /\ ~modalVisible
    /\ started
    /\ currentView = "log"
    /\ \E id \in logRows :
           Step(editRecord(State, id))

\* a click on the Delete button of a row: TrainingLog.confirmDelete
DeleteClick ==
    /\ ~modalVisible
    /\ started
    /\ currentView = "log"
    /\ \E id \in logRows :
           Becomes(ModalShow(State, Callback("deleteRecord", id, << >>)))

\* the 'change' event of 'import-file': CSVHandler.importCSV starts parsing
ImportFileChosen ==
    /\ ~modalVisible
    /\ started
    /\ \E rows \in CsvFiles :
           Step([State EXCEPT !.parsing =
                         Append(@, [what |-> "import", userName |-> "", data |-> rows])])

\* a click on 'modal-confirm'
ModalConfirmClick ==
    /\ modalVisible
    /\ \E failing \in Succeeding :
           Step(confirmClick(State, now, failing))

\* a click on 'modal-cancel'
ModalCancelClick ==
    /\ modalVisible
    /\ Becomes(cancelClick(State))

\* the 'submit' event of the planning form
SubmitPlanForm ==
    /\ ~modalVisible
    /\ started
    /\ currentView = "planning"
    /\ \E input \in PlanInputs, failing \in Succeeding :
           Step(handlePlanFormSubmit(State, input, now, failing))

\* a click on an entry of the trainee dropdown: Planning.selectTrainee
SelectTrainee ==
    /\ ~modalVisible
    /\ started
    /\ currentView = "planning"
    /\ \E i \in 1..Len(orgaData) :
           LET id == IF Truthy(orgaData[i].Matricule) THEN orgaData[i].Matricule ELSE ""
           IN /\ \A j \in 1..Len(selectedTrainees) : selectedTrainees[j] # id
              /\ Becomes([State EXCEPT !.selectedTrainees = Append(@, id)])

\* a click on the remove button of a badge: Planning.removeTrainee
RemoveTrainee ==
    /\ ~modalVisible
    /\ started
    /\ currentView = "planning"
    /\ \E j \in 1..Len(selectedTrainees) :
           /\ getEmployeeById(orgaData, selectedTrainees[j]) # NoEmployee
           /\ Becomes([State EXCEPT !.selectedTrainees = Without(@, j)])

\* a click on the Edit button of a row of the planned-sessions table
PlanEditClick ==
    /\ ~modalVisible
    /\ started
    /\ currentView = "planning"
    /\ \E id \in planRows : Becomes(PlanningRender(State, id))

\* a click on the Delete button of a row: Planning.confirmDeletePlan
PlanDeleteClick ==
    /\ ~modalVisible
    /\ started
    /\ currentView = "planning"
    /\ \E id \in planRows :
           Becomes(ModalShow(State, Callback("deletePlan", id, << >>)))

\* a click on 'cancel-plan-edit', shown while a plan is edited
CancelPlanEditClick ==
    /\ ~modalVisible
    /\ started
    /\ currentView = "planning"
    /\ planIsEditing
    /\ Becomes(resetPlanForm(State))

\* a deferred render runs: the callback of setTimeout in App.renderView
TimerFires ==
    /\ timers # << >>
    /\ LET timer == Head(timers)
           a0 == [State EXCEPT !.timers = Tail(@)]
       IN Becomes(IF timer.view = "planning" THEN PlanningRender(a0, timer.param)
                  ELSE a0)

NextApp ==
    \/ LoginClick
    \/ ParseComplete
    \/ ParseError
    \/ NavClick
    \/ SubmitForm
    \/ CancelEditClick
    \/ ClearFiltersClick
    \/ EditClick
    \/ DeleteClick
    \/ ImportFileChosen
    \/ ModalConfirmClick
    \/ ModalCancelClick
    \/ SubmitPlanForm
    \/ SelectTrainee
    \/ RemoveTrainee
    \/ PlanEditClick
    \/ PlanDeleteClick
    \/ CancelPlanEditClick
    \/ TimerFires
    \/ Tick

\* the application driven by its user
SpecApp == Init /\ [][NextApp]_vars

\* ------------------------------------------- the login before the roster is
\* parsed.  handleLogin hands the file to Papa.parse and returns; the login
\* form stays on the page until App.start hides it, so the button can be
\* clicked again while the file is parsed
MaxLogins == 2

\* the step stays within the bounds of the logins
WithinLogins(a) ==
    /\ Len(a.parsing) <= MaxLogins
    /\ Len(a.staleForms) < MaxLogins
    /\ Len(a.timers) <= MaxLogins
    /\ Len(a.trainingData) <= MaxLogins
    /\ a.rnd <= MaxLogins

\* a click on 'login-btn' while the login form is shown
LoginClickAgain ==
    /\ ~modalVisible
    /\ ~started
    /\ \E userName \in TypedNames, orgaFile \in {<< >>} \cup {<< r >> : r \in Rosters} :
           LET a == handleLogin(State, userName, orgaFile)
           IN WithinLogins(a) /\ Becomes(a)

\* Papa.parse delivers a roster: the 'complete' callback of handleLogin
LoginParsed ==
    \E i \in 1..Len(parsing) :
        LET job == parsing[i]
            a == start([State EXCEPT !.parsing = Without(@, i)], job.userName, job.data)
        IN job.what = "login" /\ WithinLogins(a) /\ Becomes(a)

\* a click on the sidebar link of the add view or of the log view
LinkClick ==
    /\ ~modalVisible
    /\ started
    /\ \E viewId \in {"add", "log"} :
           LET a == navEvent(State, viewId, 1)
           IN WithinLogins(a) /\ Becomes(a)

\* the 'submit' event of the training form
SubmitOnce ==
    /\ ~modalVisible
    /\ started
    /\ currentView = "add"
    /\ \E input \in FormInputs, failing \in Succeeding :
           LET a == submitEvent(State, input, now, failing)
           IN WithinLogins(a) /\ Becomes(a)

\* a click on the Edit button of a row of the log table
EditRow ==
    /\ ~modalVisible
    /\ started
    /\ currentView = "log"
    /\ \E id \in logRows :
           LET a == editRecord(State, id)
           IN WithinLogins(a) /\ Becomes(a)

NextLogin ==
    \/ LoginClickAgain
    \/ LoginParsed
    \/ ParseError
    \/ ModalCancelClick
    \/ LinkClick
    \/ ClearFiltersClick
    \/ EditRow
    \/ CancelEditClick
    \/ SubmitOnce
    \/ TimerFires
    \/ Tick

\* the application while its user logs in
SpecLogin == Init /\ [][NextLogin]_vars

\* ------------------------------------------------- the store and its rosters
\* The store is initialized at every login with the roster file the user
\* chose, over the records localStorage holds from the logins before.
MaxEnriched == 2

\* the roster files the user has
RosterFiles == {RosterA, RosterB}

\* init with the roster of this login
InitRoster ==
    \E orga \in RosterFiles :
        Becomes(init(Calling(State, "init", NoId), "Nora Sadki", orga))

AddEnriched ==
    /\ Initialized
    /\ Len(trainingData) < MaxEnriched
    /\ rnd < MaxEnriched
    /\ \E record \in RecordPayloads({NoId}) :
           Becomes(addRecord(Calling(State, "addRecord", NoId), record, now, {}))

UpdateEnriched ==
    /\ Initialized
    /\ \E record \in RecordPayloads(Ids(trainingData)) :
           Becomes(updateRecord(Calling(State, "updateRecord", record.Id), record, {}))

ImportEnriched ==
    /\ Initialized
    /\ \E newData \in SeqsUpTo(CsvRows({NoId} \cup CsvIds), MaxRows) :
           LET a == importData(Calling(State, "importData", NoId), newData, now, {})
           IN a.rnd <= MaxEnriched /\ Becomes(a)

NextRosters ==
    \/ InitRoster
    \/ AddEnriched
    \/ UpdateEnriched
    \/ ImportEnriched
    \/ Tick

SpecRosters == Init /\ [][NextRosters]_vars

\* the store over a localStorage that holds JSON which is no array
InitCorrupt ==
    /\ PageLoaded
    /\ storage \in [STORAGE_KEYS -> {FalsyJson, ObjectJson}]

SpecCorrupt == InitCorrupt /\ [][Next]_vars

\* ----------------------------------------------------------------- numbers
\* A JavaScript number is a finite value or Infinity, -Infinity or NaN.  A
\* finite value is v tenths over the divisor d.
Finite(tenths) == [kind |-> "finite", v |-> tenths, d |-> 1]

Infinity == [kind |-> "infinite", v |-> 1, d |-> 1]

MinusInfinity == [kind |-> "infinite", v |-> -1, d |-> 1]

NaN == [kind |-> "NaN", v |-> 0, d |-> 1]

Zero == Finite(0)

\* parseFloat on the texts of the hours field in use
parseFloat(text) ==
    CASE text = "2" -> Finite(20)
      [] text = "1.5" -> Finite(15)
      [] text = "0" -> Zero
      [] text = "Infinity" -> Infinity
      [] text = "-Infinity" -> MinusInfinity
      [] OTHER -> NaN

\* x + y
Plus(x, y) ==
    CASE x.kind = "NaN" \/ y.kind = "NaN" -> NaN
      [] x.kind = "infinite" /\ y.kind = "infinite" -> IF x.v = y.v THEN x ELSE NaN
      [] x.kind = "infinite" -> x
      [] y.kind = "infinite" -> y
      [] OTHER -> Finite(x.v + y.v)

\* parseFloat(r['Number of Training Hours']) || 0
HoursOf(r) ==
    IF parseFloat(r.Hours) = NaN THEN Zero ELSE parseFloat(r.Hours)

\* records.reduce((sum, r) => sum + (parseFloat(...) || 0), 0)
RECURSIVE TotalHours(_)
TotalHours(records) ==
    IF records = << >> THEN Zero
    ELSE Plus(TotalHours(SubSeq(records, 1, Len(records) - 1)),
              HoursOf(records[Len(records)]))

RECURSIVE GCD(_, _)
GCD(m, n) == IF n = 0 THEN m ELSE GCD(n, m % n)

\* x / n for a count n > 0 and a sum x of hours (no finite sum is negative)
Over(x, n) ==
    IF x.kind = "finite"
    THEN [kind |-> "finite", v |-> x.v \div GCD(x.v, n), d |-> n \div GCD(x.v, n)]
    ELSE x

\* the text of a number with the given hundredths and number of decimals
Decimal(hundredths, digits) ==
    [kind |-> "finite", hundredths |-> hundredths, digits |-> digits]

\* x.toFixed(2): the nearest hundredth; 'Infinity', '-Infinity' and 'NaN'
\* for the other numbers
toFixed(x) ==
    IF x.kind = "finite"
    THEN Decimal((20 * x.v + x.d) \div (2 * x.d), 2)
    ELSE [kind |-> x.kind, hundredths |-> x.v, digits |-> 0]

\* -------------------------------------------------------------- Dashboard
\* the indices of a sequence
Indices(seq) == 1..Len(seq)

\* r.Month || 'Unknown'
MonthBucket(r) == IF Truthy(r.Month) THEN r.Month ELSE "Unknown"

\* Dashboard.renderSessionsByMonthChart: the number of sessions by month label
sessionsByMonth(records) ==
    [month \in { MonthBucket(records[i]) : i \in Indices(records) } |->
        Cardinality({i \in Indices(records) : MonthBucket(records[i]) = month})]

\* r['Training Type'] || 'Unknown'
TypeLabel(r) == IF Truthy(r.TrainingType) THEN r.TrainingType ELSE "Unknown"

\* r.Project || 'Unknown'
ProjectLabel(r) == IF Truthy(r.Project) THEN r.Project ELSE "Unknown"

\* new Set(records.map(r => r["Trainee's ID Number"])).size
UniqueTrainees(records) ==
    Cardinality({records[i].TraineeId : i \in Indices(records)})

\* Dashboard.renderKPIs: the texts of the four cards
renderKPIs(records) ==
    [totalHours |-> toFixed(TotalHours(records)),
     totalSessions |-> Len(records),
     uniqueTrainees |-> UniqueTrainees(records),
     avgHours |-> IF UniqueTrainees(records) > 0
                  THEN toFixed(Over(TotalHours(records), UniqueTrainees(records)))
                  ELSE Decimal(0, 0)]

\* Dashboard.renderHoursByTypeChart: the hours by type label
hoursByType(records) ==
    [type \in { TypeLabel(records[i]) : i \in Indices(records) } |->
        TotalHours(SelectSeq(records, LAMBDA r : TypeLabel(r) = type))]

\* Dashboard.renderHoursByProjectChart: the hours by project label
hoursByProject(records) ==
    [project \in { ProjectLabel(records[i]) : i \in Indices(records) } |->
        TotalHours(SelectSeq(records, LAMBDA r : ProjectLabel(r) = project))]

\* Dashboard.render.  No figure depends on the order in which getTrainingLog
\* returns the records.
DashboardRender(a) ==
    IF TRAINING_DATA \in a.nonArray THEN Raise(a)
    ELSE [a EXCEPT !.shown.dashboard =
              [rendered |-> TRUE,
               kpi |-> renderKPIs(a.trainingData),
               hoursByType |-> hoursByType(a.trainingData),
               sessionsByMonth |-> sessionsByMonth(a.trainingData),
               hoursByProject |-> hoursByProject(a.trainingData)]]

\* ------------------------------------------------------------ Performance
\* r.Trainer || 'Unknown'
TrainerLabel(r) == IF Truthy(r.Trainer) THEN r.Trainer ELSE "Unknown"

\* Performance.calculatePerformance: hours and sessions by trainer label
calculatePerformance(records) ==
    [trainer \in { TrainerLabel(records[i]) : i \in Indices(records) } |->
        [hours |-> TotalHours(SelectSeq(records, LAMBDA r : TrainerLabel(r) = trainer)),
         sessions |-> Len(SelectSeq(records, LAMBDA r : TrainerLabel(r) = trainer))]]

\* data.sessions > 0 ? (data.hours / data.sessions).toFixed(2) : '0.00'
AvgPerSession(data) ==
    IF data.sessions > 0 THEN toFixed(Over(data.hours, data.sessions))
    ELSE Decimal(0, 2)

\* Performance.renderTable: the cells of the row of each trainer
renderTable(performanceData) ==
    [trainer \in DOMAIN performanceData |->
        [hours |-> toFixed(performanceData[trainer].hours),
         sessions |-> performanceData[trainer].sessions,
         avgHours |-> AvgPerSession(performanceData[trainer])]]

\* Performance.render
PerformanceRender(a) ==
    IF TRAINING_DATA \in a.nonArray THEN Raise(a)
    ELSE [a EXCEPT !.shown.performance =
              [rendered |-> TRUE,
               performanceData |-> calculatePerformance(a.trainingData),
               table |-> renderTable(calculatePerformance(a.trainingData))]]

\* --------------------------------------------------------------- Analysis
\* `${value}`: the text of a value in a template literal
TemplateText(value) == IF value = Undefined THEN "undefined" ELSE value

\* `${r.Week}-${r.Sector}`
WeekKey(r) == << TemplateText(r.Week), TemplateText(r.Sector) >>

\* `${r.Month}-${r.Sector}`
MonthKey(r) == << TemplateText(r.Month), TemplateText(r.Sector) >>

\* the hours of the records of a value of a field
HoursWhere(records, field, value) ==
    TotalHours(SelectSeq(records, LAMBDA r : r[field] = value))

\* Analysis.renderWeeklyHoursByGenderChart: Male and Female hours by key
weeklyHoursByGender(records) ==
    [key \in { WeekKey(records[i]) : i \in Indices(records) } |->
        [Male |-> HoursWhere(SelectSeq(records, LAMBDA r : WeekKey(r) = key),
                             "Gender", "Male"),
         Female |-> HoursWhere(SelectSeq(records, LAMBDA r : WeekKey(r) = key),
                               "Gender", "Female")]]

\* Analysis.renderWeeklyHoursByTypeChart
weeklyHoursByType(records) ==
    [key \in { WeekKey(records[i]) : i \in Indices(records) } |->
        [Qualification |-> HoursWhere(SelectSeq(records, LAMBDA r : WeekKey(r) = key),
                                      "TrainingType", "Qualification"),
         Refreshment |-> HoursWhere(SelectSeq(records, LAMBDA r : WeekKey(r) = key),
                                    "TrainingType", "Refreshment")]]

\* Analysis.renderMonthlyHoursByGenderChart
monthlyHoursByGender(records) ==
    [key \in { MonthKey(records[i]) : i \in Indices(records) } |->
        [Male |-> HoursWhere(SelectSeq(records, LAMBDA r : MonthKey(r) = key),
                             "Gender", "Male"),
         Female |-> HoursWhere(SelectSeq(records, LAMBDA r : MonthKey(r) = key),
                               "Gender", "Female")]]

\* Analysis.renderMonthlyHoursByTypeChart
monthlyHoursByType(records) ==
    [key \in { MonthKey(records[i]) : i \in Indices(records) } |->
        [Qualification |-> HoursWhere(SelectSeq(records, LAMBDA r : MonthKey(r) = key),
                                      "TrainingType", "Qualification"),
         Refreshment |-> HoursWhere(SelectSeq(records, LAMBDA r : MonthKey(r) = key),
                                    "TrainingType", "Refreshment")]]

\* r['Refreshment Type'] || 'Other'
RefreshmentLabel(r) ==
    IF Truthy(r.RefreshmentType) THEN r.RefreshmentType ELSE "Other"

\* the records of type Refreshment
Refreshments(records) ==
    SelectSeq(records, LAMBDA r : r.TrainingType = "Refreshment")

\* Analysis.renderRefreshmentOverviewChart
refreshOverview(records) ==
    [type \in { RefreshmentLabel(Refreshments(records)[i]) :
                    i \in Indices(Refreshments(records)) } |->
        TotalHours(SelectSeq(Refreshments(records),
                             LAMBDA r : RefreshmentLabel(r) = type))]

\* the cell { h, c } of avgHours for a type and a gender
AvgCell(records, type, gender) ==
    [h |-> TotalHours(SelectSeq(records, LAMBDA r : r.TrainingType = type
                                                    /\ r.Gender = gender)),
     c |-> Len(SelectSeq(records, LAMBDA r : r.TrainingType = type
                                             /\ r.Gender = gender))]

\* h / c without the guard: 0 / 0 is NaN
Average_unguarded(cell) == IF cell.c = 0 THEN NaN ELSE Over(cell.h, cell.c)

\* c > 0 ? h / c : 0
Average(cell) == IF cell.c > 0 THEN Over(cell.h, cell.c) ELSE Zero

\* Analysis.renderAvgHoursByGenderChart: femaleAvg and maleAvg, by type
avgHoursByGender(records) ==
    [gender \in {"Female", "Male"} |->
        [type \in {"Qualification", "Refreshment"} |->
            Average(AvgCell(records, type, gender))]]

\* Analysis.renderSessionsByGenderChart
sessionsByGender(records) ==
    [gender \in { records[i].Gender : i \in Indices(records) } \cap {"Male", "Female"} |->
        Len(SelectSeq(records, LAMBDA r : r.Gender = gender))]

\* r.Sector || 'Unknown'
SectorLabel(r) == IF Truthy(r.Sector) THEN r.Sector ELSE "Unknown"

\* Analysis.renderSessionsByAreaChart
sessionsByArea(records) ==
    [sector \in { SectorLabel(records[i]) : i \in Indices(records) } |->
        Len(SelectSeq(records, LAMBDA r : SectorLabel(r) = sector))]

\* Analysis.render
AnalysisRender(a) ==
    IF TRAINING_DATA \in a.nonArray THEN Raise(a)
    ELSE [a EXCEPT !.shown.analysis =
              [rendered |-> TRUE,
               weeklyHoursByGender |-> weeklyHoursByGender(a.trainingData),
               weeklyHoursByType |-> weeklyHoursByType(a.trainingData),
               monthlyHoursByGender |-> monthlyHoursByGender(a.trainingData),
               monthlyHoursByType |-> monthlyHoursByType(a.trainingData),
               refreshOverview |-> refreshOverview(a.trainingData),
               avgHoursByGender |-> avgHoursByGender(a.trainingData),
               sessionsByGender |-> sessionsByGender(a.trainingData),
               sessionsByArea |-> sessionsByArea(a.trainingData)]]

\* ----------------------------------------------------------- YearlyReport
FISCAL_MONTHS ==
    << "July", "August", "September", "October", "November", "December",
       "January", "February", "March", "April", "May", "June" >>

\* a JavaScript value that is a Date object
DateObject(date) == [type |-> "Date", date |-> date]

\* a JavaScript value that is no Date object
NotADate(type, value) == [type |-> type, value |-> value]

\* the text `FY ${fiscalYear}`
FY(fiscalYear) == << "FY", fiscalYear >>

\* getFiscalYear as it would be with June in the new fiscal year
getFiscalYear_fromJune(date) ==
    IF date.type # "Date" THEN << >>
    ELSE IF ~IsValidDate(date.date) THEN << >>
    ELSE FY(IF date.date.m >= 6 THEN date.date.y ELSE date.date.y - 1)

\* getFiscalYear: '' is the empty text; getMonth() >= 6 is July or later
getFiscalYear(date) ==
    IF date.type # "Date" THEN << >>
    ELSE IF ~IsValidDate(date.date) THEN << >>
    ELSE FY(IF date.date.m >= 7 THEN date.date.y ELSE date.date.y - 1)

\* getFiscalYear(new Date(text.replace(/-/g, '/'))): 'FY y' is y, '' is 0
FiscalYearOfText(text) ==
    IF getFiscalYear(DateObject(ParseDate(text))) = << >> THEN 0
    ELSE getFiscalYear(DateObject(ParseDate(text)))[2]

\* what calculateMonthlyData starts every month with
EmptyMonth ==
    [operatorsQual |-> {}, operatorsRefresh |-> {}, hoursQual |-> Zero,
     hoursRefresh |-> Zero, qualifRealised |-> 0, refreshRealised |-> 0,
     qualifPlanned |-> 0, refreshPlanned |-> 0]

\* the callback of yearlyPlannedSessions.forEach as it would be if it counted
\* the sessions
PlanTally_bySession(entry, p) ==
    IF p.trainingType = "Qualification"
    THEN [entry EXCEPT !.qualifPlanned = @ + 1]
    ELSE IF p.trainingType = "Refreshment"
    THEN [entry EXCEPT !.refreshPlanned = @ + 1]
    ELSE entry

\* the callback of yearlyPlannedSessions.forEach, on the entry of the month
PlanTally(entry, p) ==
    IF p.trainingType = "Qualification"
    THEN [entry EXCEPT !.qualifPlanned = @ + Len(p.trainees)]
    ELSE IF p.trainingType = "Refreshment"
    THEN [entry EXCEPT !.refreshPlanned = @ + Len(p.trainees)]
    ELSE entry

\* the callback of yearlyRecords.forEach as it would be if it collected the
\* operators by record
RecordTally_byRecord(entry, r) ==
    IF r.TrainingType = "Qualification"
    THEN [entry EXCEPT !.operatorsQual = @ \cup {r.Id},
                       !.hoursQual = Plus(@, HoursOf(r)),
                       !.qualifRealised = @ + 1]
    ELSE IF r.TrainingType = "Refreshment"
    THEN [entry EXCEPT !.operatorsRefresh = @ \cup {r.Id},
                       !.hoursRefresh = Plus(@, HoursOf(r)),
                       !.refreshRealised = @ + 1]
    ELSE entry

\* the callback of yearlyRecords.forEach, on the entry of the month
RecordTally(entry, r) ==
    IF r.TrainingType = "Qualification"
    THEN [entry EXCEPT !.operatorsQual = @ \cup {r.TraineeId},
                       !.hoursQual = Plus(@, HoursOf(r)),
                       !.qualifRealised = @ + 1]
    ELSE IF r.TrainingType = "Refreshment"
    THEN [entry EXCEPT !.operatorsRefresh = @ \cup {r.TraineeId},
                       !.hoursRefresh = Plus(@, HoursOf(r)),
                       !.refreshRealised = @ + 1]
    ELSE entry

\* if (monthlyData[month]) ...: months the object has no entry for are skipped
InMonth(monthlyData, month, entry) ==
    IF month \in DOMAIN monthlyData THEN [monthlyData EXCEPT ![month] = entry]
    ELSE monthlyData

\* the month entry a callback works on (any entry when there is none)
EntryOf(monthlyData, month) ==
    IF month \in DOMAIN monthlyData THEN monthlyData[month] ELSE EmptyMonth

RECURSIVE ForEachPlan(_, _)
ForEachPlan(monthlyData, plans) ==
    IF plans = << >> THEN monthlyData
    ELSE ForEachPlan(
             InMonth(monthlyData, MonthLong(ParseDate(Head(plans).plannedDate)),
                     PlanTally(EntryOf(monthlyData,
                                       MonthLong(ParseDate(Head(plans).plannedDate))),
                               Head(plans))),
             Tail(plans))

RECURSIVE ForEachRecord(_, _)
ForEachRecord(monthlyData, records) ==
    IF records = << >> THEN monthlyData
    ELSE ForEachRecord(
             InMonth(monthlyData, Head(records).Month,
                     RecordTally(EntryOf(monthlyData, Head(records).Month),
                                 Head(records))),
             Tail(records))

\* YearlyReport.calculateMonthlyData
calculateMonthlyData(yearlyRecords, yearlyPlannedSessions) ==
    ForEachRecord(
        ForEachPlan([month \in {FISCAL_MONTHS[i] : i \in 1..12} |-> EmptyMonth],
                    yearlyPlannedSessions),
        yearlyRecords)

\* records.filter(r => r['Training Type'] === type)
OfType(records, type) == SelectSeq(records, LAMBDA r : r.TrainingType = type)

\* new Set(records.map(r => r["Trainee's ID Number"])).size
Operators(records) == Cardinality({records[i].TraineeId : i \in Indices(records)})

\* plans.filter(p => p.trainingType === type).reduce((s, p) => s + p.trainees.length, 0)
RECURSIVE PlannedSlots(_, _)
PlannedSlots(plans, type) ==
    IF plans = << >> THEN 0
    ELSE PlannedSlots(SubSeq(plans, 1, Len(plans) - 1), type)
         + (IF plans[Len(plans)].trainingType = type
            THEN Len(plans[Len(plans)].trainees) ELSE 0)

\* YearlyReport.renderTables: the Total row of each of the four tables
Totals(yearlyRecords, yearlyPlannedSessions) ==
    [operators |-> [Qualification |-> Operators(OfType(yearlyRecords, "Qualification")),
                    Refreshment |-> Operators(OfType(yearlyRecords, "Refreshment"))],
     hours |-> [Qualification |-> TotalHours(OfType(yearlyRecords, "Qualification")),
                Refreshment |-> TotalHours(OfType(yearlyRecords, "Refreshment"))],
     qualification |-> [realised |-> Len(OfType(yearlyRecords, "Qualification")),
                        planned |-> PlannedSlots(yearlyPlannedSessions, "Qualification")],
     refreshment |-> [realised |-> Len(OfType(yearlyRecords, "Refreshment")),
                      planned |-> PlannedSlots(yearlyPlannedSessions, "Refreshment")]]

\* the fiscal years of the records: the options of 'yearly-report-filter'
\* are those that are no empty text
FiscalYears(records) ==
    { FiscalYearOfText(records[i].TrainingDate) : i \in Indices(records) }

\* YearlyReport.populateYearlyReportFilter: the value of the select afterwards
\* (sort().reverse() puts the latest year first and '' last)
SelectedYear(currentValue, fiscalYears) ==
    IF currentValue # 0 /\ currentValue \in fiscalYears THEN currentValue
    ELSE IF fiscalYears = {} THEN 0
    ELSE CHOOSE fy \in fiscalYears : \A other \in fiscalYears : other <= fy

\* YearlyReport.clearReport
ClearedReport(fiscalYears) ==
    [rendered |-> TRUE, selected |-> 0, options |-> fiscalYears \ {0},
     cleared |-> TRUE]

\* YearlyReport.renderReportContent for a selected year: KPIs, tables, charts
Report(yearlyRecords, yearlyPlannedSessions, selected, fiscalYears) ==
    [rendered |-> TRUE, selected |-> selected, options |-> fiscalYears \ {0},
     cleared |-> FALSE,
     totalOperators |-> Operators(yearlyRecords),
     totalHours |-> TotalHours(yearlyRecords),
     monthlyData |-> calculateMonthlyData(yearlyRecords, yearlyPlannedSessions),
     totals |-> Totals(yearlyRecords, yearlyPlannedSessions)]

\* YearlyReport.renderReportContent
renderReportContent(a, selected, fiscalYears) ==
    IF selected = 0
    THEN [a EXCEPT !.shown.yearlyReport = ClearedReport(fiscalYears)]
    ELSE IF PLANNED_SESSIONS \in a.nonArray
            \/ \E i \in Indices(a.plannedSessions) :
                   a.plannedSessions[i].plannedDate = Undefined
    THEN Raise(a)
    ELSE [a EXCEPT !.shown.yearlyReport =
              Report(SelectSeq(a.trainingData,
                               LAMBDA r : FiscalYearOfText(r.TrainingDate) = selected),
                     SelectSeq(a.plannedSessions,
                               LAMBDA p : FiscalYearOfText(p.plannedDate) = selected),
                     selected, fiscalYears)]

\* YearlyReport.render; currentValue: the value of 'yearly-report-filter'.
\* The figures do not depend on the order in which getTrainingLog and
\* getPlannedSessions return the items.
YearlyReportRender(a, currentValue) ==
    IF TRAINING_DATA \in a.nonArray
       \/ \E i \in Indices(a.trainingData) : a.trainingData[i].TrainingDate = Undefined
    THEN Raise(a)
    ELSE renderReportContent(a,
             SelectedYear(currentValue, FiscalYears(a.trainingData)),
             FiscalYears(a.trainingData))

\* ------------------------------------------------ the store with records
\* rows as the form and imported files gave them in earlier sessions: the
\* same trainee twice in one month, a trainee the roster does not know, a row
\* without a sector column, a row of empty cells, hours that parseFloat
\* reads as Infinity and -Infinity, a date of the previous fiscal year
StoredRows ==
    << Record(NoId, "Nora Sadki", "2024-07-01", "E1", "Qualification", "", "2", "S1"),
       Record(NoId, "Nora Sadki", "2024-07-08", "E1", "Qualification", "", "1.5", "S1"),
       Record(NoId, "Nora Sadki", "2024-07-01", "X9", "Refreshment", "5S", "0", Undefined),
       Record(NoId, "Nora Sadki", "", "", "", "", "", ""),
       Record(NoId, "Kamal Hbahem", "2025-01-31", "E1", "Refreshment", "", "Infinity", "S2"),
       Record(NoId, "Kamal Hbahem", "2024-06-30", "E1 ", "Qualification", "", "-Infinity", "S1") >>

\* the record the store holds for row k: what _enrichRecord made of it
StoredRecord(orga, k) ==
    _enrichRecord(orga, [StoredRows[k] EXCEPT !.Id = [t |-> 0, r |-> k]]).record

\* the plans of earlier sessions, as addPlan stored them
StoredPlans ==
    << [Plan([t |-> 0, r |-> 1], "2024-07-08", << "E1", "X9" >>, "Qualification", "Planned")
            EXCEPT !.Month = MonthLong(ParseDate("2024-07-08"))],
       [Plan([t |-> 0, r |-> 2], "2024-07-01", << "E1" >>, "Refreshment", "Planned")
            EXCEPT !.Month = MonthLong(ParseDate("2024-07-01"))],
       [Plan([t |-> 0, r |-> 3], "2025-01-31", << "E1" >>, "Qualification", "Completed")
            EXCEPT !.Month = MonthLong(ParseDate("2025-01-31"))] >>

\* sequences of at most n different elements of 1..m
Picks(m, n) ==
    { p \in SeqsUpTo(1..m, n) : \A i, j \in 1..Len(p) : i # j => p[i] # p[j] }

\* the store after init, over a localStorage that holds what earlier sessions
\* saved
InitStored ==
    /\ currentUser = "Nora Sadki"
    /\ orgaData = RosterB
    /\ \E p \in Picks(Len(StoredRows), MaxStored) :
           trainingData = [i \in 1..Len(p) |-> StoredRecord(RosterB, p[i])]
    /\ \E n \in 0..MaxStoredPlans : plannedSessions = SubSeq(StoredPlans, 1, n)
    /\ nonArray = {}
    /\ storage = [key \in STORAGE_KEYS |->
                     [kind |-> "array",
                      items |-> IF key = TRAINING_DATA THEN trainingData
                                ELSE plannedSessions]]
    /\ now = 1
    /\ rnd = 0
    /\ failures = 0
    /\ started = FALSE
    /\ parsing = << >>
    /\ currentView = ""
    /\ timers = << >>
    /\ isEditing = FALSE
    /\ recordIdInput = NoId
    /\ logRows = {}
    /\ planIsEditing = FALSE
    /\ planIdInput = NoId
    /\ selectedTrainees = << >>
    /\ planRows = {}
    /\ modalVisible = FALSE
    /\ confirmListeners = << >>
    /\ cancelListeners = 0
    /\ shown = [c \in CHARTED |-> NotRendered]
    /\ staleForms = << >>
    /\ calendarDate = Today
    /\ result = NoResult
    /\ last = [op |-> "init", id |-> NoId, raised |-> FALSE, writes |-> << >>]

\* addRecord on a store that holds records
AddToStored ==
    /\ Len(trainingData) < MaxStored
    /\ rnd < MaxRandom
    /\ \E record \in RecordPayloads({NoId}) :
           Becomes(addRecord(Calling(State, "addRecord", NoId), record, now, {}))

\* a call of getTrainingLog
GetTrainingLog ==
    \E log \in getTrainingLog(trainingData) :
        Becomes([Calling(State, "getTrainingLog", NoId) EXCEPT
                     !.result = [of |-> "getTrainingLog", value |-> log]])

\* the user exports the log and imports the downloaded file
ImportExported ==
    /\ result.of = "getTrainingLog"
    /\ Becomes(importData(Calling(State, "importData", NoId),
                          parse(unparse(result.value)), now, {}))

\* the identifiers getEmployeeById is asked for
LookupIds == {Undefined, "", " ", "E1", " E1", "E1 ", "X9"}

\* a call of getEmployeeById
GetEmployeeById ==
    \E id \in LookupIds :
        Becomes([Calling(State, "getEmployeeById", NoId) EXCEPT
                     !.result = [of |-> "getEmployeeById", id |-> id,
                                 value |-> getEmployeeById(orgaData, id)]])

NextStored ==
    \/ AddToStored
    \/ GetEmployeeById
    \/ GetTrainingLog
    \/ ImportExported

\* the store and the views over the records of earlier sessions
SpecStored == InitStored /\ [][NextStored]_vars

\* the value of 'yearly-report-filter', and the options the user can choose
FilterValues ==
    IF shown.yearlyReport.rendered
    THEN {shown.yearlyReport.selected} \cup shown.yearlyReport.options
    ELSE {0}

\* the yearly report is rendered, at first or after the user chose a year
RenderYearlyReport ==
    \E currentValue \in FilterValues :
        Becomes(YearlyReportRender(State, currentValue))

RenderDashboard == Becomes(DashboardRender(State))

RenderPerformance == Becomes(PerformanceRender(State))

RenderAnalysis == Becomes(AnalysisRender(State))

NextViews ==
    \/ RenderDashboard
    \/ RenderPerformance
    \/ RenderAnalysis
    \/ RenderYearlyReport

\* the views over the records of earlier sessions
SpecViews == InitStored /\ [][NextViews]_vars

\* -------------------------------------------------- the store and the dates
MaxDated == 1

\* the date texts a form or a file may give: the dates of the table, the empty
\* text and a text that is no date
DateTexts == DOMAIN DateTable \cup {"", "not a date"}

\* the values getFiscalYear may be called with
FiscalInputs ==
    { DateObject(ParseDate(s)) : s \in DateTexts }
    \cup { NotADate("string", "2024-07-01"), NotADate("undefined", Undefined),
           NotADate("null", Undefined), NotADate("number", "1719784800000") }

\* the store after init with the roster, holding nothing
InitDates == InitStored /\ trainingData = << >> /\ plannedSessions = << >>

\* a call of getFiscalYear
GetFiscalYear ==
    \E date \in FiscalInputs :
        Becomes([Calling(State, "getFiscalYear", NoId) EXCEPT
                     !.result = [of |-> "getFiscalYear", date |-> date,
                                 value |-> getFiscalYear(date)]])

\* addRecord with a payload of any date text
AddDated ==
    /\ Len(trainingData) < MaxDated
    /\ rnd < MaxRandom
    /\ \E date \in DateTexts :
           Becomes(addRecord(Calling(State, "addRecord", NoId),
                             Record(NoId, Undefined, date, "E1", "Qualification", "",
                                    "2", "S1"),
                             now, {}))

\* updateRecord giving a stored record any date text
UpdateDated ==
    \E i \in 1..Len(trainingData), date \in DateTexts :
        Becomes(updateRecord(Calling(State, "updateRecord", trainingData[i].Id),
                             Record(trainingData[i].Id, Undefined, date, "E1",
                                    "Qualification", "", "2", "S1"),
                             {}))

NextDates ==
    \/ GetFiscalYear
    \/ AddDated
    \/ UpdateDated

SpecDates == InitDates /\ [][NextDates]_vars

\* ------------------------------------------------------------- the calendar
\* the years the calendar is constructed in, and those it is browsed through
FirstYear == 2023

LastYear == 2025

IsLeapYear(y) == (y % 4 = 0 /\ y % 100 # 0) \/ y % 400 = 0

DaysInMonth(y, m) ==
    IF m = 2 THEN (IF IsLeapYear(y) THEN 29 ELSE 28)
    ELSE IF m \in {4, 6, 9, 11} THEN 30 ELSE 31

\* the days new Date() can give
CalendarDays ==
    { [y |-> y, m |-> m, d |-> d] :
          y \in FirstYear..LastYear, m \in 1..12, d \in 1..31 }

StartDays == { date \in CalendarDays : date.d <= DaysInMonth(date.y, date.m) }

\* Date.prototype.setMonth, the months counted from 1: month 0 is December of
\* the year before and month 13 January of the year after; the day of the
\* month is kept, and a day the month does not have runs over into the next
setMonth(date, month) ==
    LET y == IF month < 1 THEN date.y - 1 ELSE IF month > 12 THEN date.y + 1 ELSE date.y
        m == ((month + 11) % 12) + 1
    IN IF date.d <= DaysInMonth(y, m) THEN [y |-> y, m |-> m, d |-> date.d]
       ELSE [y |-> y, m |-> m + 1, d |-> date.d - DaysInMonth(y, m)]

\* Calendar.changeMonth; its render shows the month and year of currentDate
changeMonth(a, direction) ==
    [Calling(a, "changeMonth", NoId) EXCEPT
        !.calendarDate = setMonth(@, @.m + direction)]

\* the title Calendar.render gives the calendar
MonthYearDisplay(date) == << MONTH_ORDER[date.m], date.y >>

\* App.start constructs the Planning component and with it the Calendar, on
\* the day of the login
CalendarConstructed ==
    \E date \in StartDays : Becomes([State EXCEPT !.calendarDate = date])

\* a click on 'prev-month'
PrevMonthClick ==
    /\ calendarDate.y >= FirstYear
    /\ Becomes(changeMonth(State, -1))

\* a click on 'next-month'
NextMonthClick ==
    /\ calendarDate.y <= LastYear
    /\ Becomes(changeMonth(State, 1))

NextCalendar ==
    \/ CalendarConstructed
    \/ PrevMonthClick
    \/ NextMonthClick

SpecCalendar == InitDates /\ [][NextCalendar]_vars

\* -------------------------------------------------- the store and its plans
MaxPlanned == 2

\* the store after init, holding no record and at most MaxPlanned plans
InitPlans == InitStored /\ trainingData = << >> /\ Len(plannedSessions) <= MaxPlanned

\* addPlan on a store that holds plans
AddPlanned ==
    /\ Len(plannedSessions) < MaxPlanned
    /\ \E plan \in PlanPayloads({NoId}) :
           Becomes(addPlan(Calling(State, "addPlan", NoId), plan, now, {}))

\* updatePlan with the Id of a stored plan or of none
UpdatePlanned ==
    \E plan \in PlanPayloads(Ids(plannedSessions) \cup {AbsentId}) :
        Becomes(updatePlan(Calling(State, "updatePlan", plan.Id), plan, {}))

\* deletePlan with the Id of a stored plan or of none
DeletePlanned ==
    \E id \in Ids(plannedSessions) \cup {AbsentId} :
        Becomes(deletePlan(Calling(State, "deletePlan", id), id, {}))

\* addRecord on a store that holds no record
AddFirst ==
    /\ trainingData = << >>
    /\ rnd < MaxRandom
    /\ \E record \in RecordPayloads({NoId}) :
           Becomes(addRecord(Calling(State, "addRecord", NoId), record, now, {}))

\* updateRecord with the Id of a stored record
UpdateStored ==
    \E record \in RecordPayloads(Ids(trainingData)) :
        Becomes(updateRecord(Calling(State, "updateRecord", record.Id), record, {}))

\* deleteRecord with the Id of a stored record
DeleteStored ==
    \E id \in Ids(trainingData) :
        Becomes(deleteRecord(Calling(State, "deleteRecord", id), id, {}))

\* importData with the row of a file
ImportRow ==
    \E newData \in CsvFiles :
        BoundedImport(importData(Calling(State, "importData", NoId), newData, now, {}))

\* the planning view is rendered for a new plan
RenderPlanning == Becomes(PlanningRender(State, NoId))

NextPlans ==
    \/ AddPlanned
    \/ UpdatePlanned
    \/ DeletePlanned
    \/ AddFirst
    \/ UpdateStored
    \/ DeleteStored
    \/ ImportRow
    \/ RenderPlanning
    \/ Tick

SpecPlans == InitPlans /\ [][NextPlans]_vars

\* ------------------------------------------------------------ properties
AnyFailing == SUBSET STORAGE_KEYS

\* the identifiers a caller may pass
SomeIds == {NoId, AbsentId} \cup CsvIds \cup Ids(trainingData) \cup Ids(plannedSessions)

\* the persisted copy of a collection
Persisted(sto, key) == load(sto, key).items

Keys(writes) == [i \in 1..Len(writes) |-> writes[i].key]

\* C1: updateRecord with the Id of a stored record and any Trainer value
\* leaves the Trainer of every stored record as it was, in memory and in the
\* persisted copy, in every state the store reaches.
C1_TrainerImmutableOnEdit ==
    \A record \in RecordPayloads(Ids(trainingData)), failing \in AnyFailing :
        LET a == updateRecord(State, record, failing)
            persisted == Persisted(a.storage, TRAINING_DATA)
        IN /\ Len(a.trainingData) = Len(trainingData)
           /\ \A i \in 1..Len(trainingData) :
                  /\ a.trainingData[i].Id = trainingData[i].Id
                  /\ a.trainingData[i].Trainer = trainingData[i].Trainer
                  /\ \A j \in 1..Len(persisted) :
                         persisted[j].Id = trainingData[i].Id
                             => persisted[j].Trainer = trainingData[i].Trainer
           /\ TRAINING_DATA \notin failing => persisted = a.trainingData

\* a record attributed to the acting user was updated with a payload naming
\* no trainer or another trainer, and the update was persisted
C1_Witness ==
    /\ last.op = "updateRecord"
    /\ Len(last.writes) = 2
    /\ last.writes[1].ok
    /\ \E i \in 1..Len(trainingData) :
           /\ trainingData[i].Id = last.id
           /\ trainingData[i].Trainer = "Nora Sadki"
           /\ Persisted(storage, TRAINING_DATA)[i].Trainer = "Nora Sadki"

\* C2: no two records of the training collection have the same Id, after any
\* sequence of addRecord, updateRecord, deleteRecord and importData calls,
\* imported rows carrying an Id included.
C2_UniqueIds ==
    \A i, j \in 1..Len(trainingData) :
        i # j => trainingData[i].Id # trainingData[j].Id

\* C3: after every mutating operation of the store in which no write failed,
\* both keys have been written and each persisted value equals the in-memory
\* collection.
C3_BothKeysPersisted ==
    LET mutating ==
            \/ last.op \in {"addRecord", "deleteRecord", "importData", "addPlan", "deletePlan"}
            \/ last.op = "updateRecord" /\ last.id \in Ids(trainingData)
            \/ last.op = "updatePlan" /\ last.id \in Ids(plannedSessions)
    IN mutating /\ Failed(last.writes) = 0 =>
           /\ Keys(last.writes) = << TRAINING_DATA, PLANNED_SESSIONS >>
           /\ \A key \in STORAGE_KEYS : storage[key] = Stringify(Value(State, key))

\* C4: submitting the training form with input that validateTrainingRecord
\* rejects calls neither addRecord nor updateRecord and leaves the training
\* collection and the persisted state unchanged.
C4_InvalidInputAborts ==
    started /\ currentView = "add" /\ ~modalVisible =>
        \A input \in FormInputs :
            LET record == Record(recordIdInput, Undefined, input.date, input.trainee,
                                 input.type, input.refreshment, input.hours,
                                 input.sector)
                a == handleSubmit(State, input, now, {})
            IN validateTrainingRecord(record) # {} =>
                   /\ a.called = "none"
                   /\ a.trainingData = trainingData
                   /\ a.storage = storage

\* C5: deleteRecord, deletePlan and importData run only in the click on the
\* confirm button of the shown dialog, whose only listener is the one of the
\* dialog opened last, for that very operation; a step that hides the dialog
\* without such a call (cancel) changes neither collection.
C5_Step ==
    /\ last'.op \in {"deleteRecord", "deletePlan", "importData"} =>
           /\ modalVisible
           /\ Len(confirmListeners) = 1
           /\ confirmListeners[1].kind = last'.op
           /\ last'.op # "importData" => confirmListeners[1].id = last'.id
           /\ last'.op = "importData" =>
                  trainingData' =
                      importData(State, confirmListeners[1].data, now, {}).trainingData
    /\ modalVisible /\ ~modalVisible' /\ last'.op = "none" =>
           /\ trainingData' = trainingData
           /\ plannedSessions' = plannedSessions
           /\ storage' = storage

C5_ConfirmationGates == [][C5_Step]_vars

\* the dialog of a deletion was confirmed: the record is gone, the dialog
\* hidden and its listener used up
C5_Witness ==
    /\ last.op = "deleteRecord"
    /\ ~last.raised
    /\ ~modalVisible
    /\ confirmListeners = << >>
    /\ last.id \notin Ids(trainingData)
    /\ last.id \notin logRows

\* C6: when a storage key is absent or holds anything but an array of
\* records, init leaves the corresponding collection empty, and the list, add
\* and remove operations that follow do not raise.
C6_InitToleratesCorruption ==
    \A userName \in LoginNames, orga \in Rosters :
        LET a == init(State, userName, orga)
        IN /\ storage[TRAINING_DATA].kind # "array" =>
                  /\ Value(a, TRAINING_DATA) = [isArray |-> TRUE, items |-> << >>]
                  /\ \A record \in RecordPayloads({NoId}) :
                         ~addRecord(a, record, now, {}).raised
                  /\ ~deleteRecord(a, AbsentId, {}).raised
           /\ storage[PLANNED_SESSIONS].kind # "array" =>
                  /\ Value(a, PLANNED_SESSIONS) = [isArray |-> TRUE, items |-> << >>]
                  /\ \A plan \in PlanPayloads({NoId}) :
                         ~addPlan(a, plan, now, {}).raised
                  /\ ~deletePlan(a, AbsentId, {}).raised

\* a is the outcome of a call in which the writes of the keys in failing
\* throw, b the outcome of the same call when no write throws
SurvivesFailure(a, b, failing) ==
    /\ a.writes # << >> => ~a.raised
    /\ a.raised = b.raised
    /\ a.trainingData = b.trainingData
    /\ a.plannedSessions = b.plannedSessions
    /\ a.nonArray = b.nonArray
    /\ Keys(a.writes) = Keys(b.writes)
    /\ a.writes # << >> => Keys(a.writes) = << TRAINING_DATA, PLANNED_SESSIONS >>
    /\ \A i \in 1..Len(a.writes) : a.writes[i].ok = (a.writes[i].key \notin failing)
    /\ \A key \in STORAGE_KEYS :
           a.storage[key] = IF key \in failing /\ a.writes # << >>
                            THEN storage[key] ELSE b.storage[key]

\* C7: a mutating operation in which the write of either collection fails
\* returns normally, leaves the in-memory collections as the same operation
\* does when the writes succeed, attempts each of the two writes once, and
\* leaves the failed key's persisted value as it was.
C7_FailedWriteKeepsMemory ==
    \A failing \in AnyFailing \ {{}} :
        /\ \A record \in RecordPayloads({NoId}) :
               SurvivesFailure(addRecord(State, record, now, failing),
                               addRecord(State, record, now, {}), failing)
        /\ \A record \in RecordPayloads(Ids(trainingData)) :
               SurvivesFailure(updateRecord(State, record, failing),
                               updateRecord(State, record, {}), failing)
        /\ \A id \in SomeIds :
               /\ SurvivesFailure(deleteRecord(State, id, failing),
                                  deleteRecord(State, id, {}), failing)
               /\ SurvivesFailure(deletePlan(State, id, failing),
                                  deletePlan(State, id, {}), failing)
        /\ \A newData \in SeqsUpTo(CsvRows({NoId} \cup CsvIds), MaxRows) :
               SurvivesFailure(importData(State, newData, now, failing),
                               importData(State, newData, now, {}), failing)
        /\ \A plan \in PlanPayloads({NoId}) :
               SurvivesFailure(addPlan(State, plan, now, failing),
                               addPlan(State, plan, now, {}), failing)
        /\ \A plan \in PlanPayloads(Ids(plannedSessions)) :
               SurvivesFailure(updatePlan(State, plan, failing),
                               updatePlan(State, plan, {}), failing)

\* an addRecord whose write of the training data failed: the record is in
\* memory, the persisted copy lacks it, and the plans were written
C7_Witness ==
    /\ last.op = "addRecord"
    /\ ~last.raised
    /\ Len(last.writes) = 2
    /\ ~last.writes[1].ok
    /\ last.writes[2].ok
    /\ trainingData # << >>
    /\ Persisted(storage, TRAINING_DATA) # trainingData
    /\ storage[PLANNED_SESSIONS] = Stringify(Value(State, PLANNED_SESSIONS))

\* C8: updateRecord with an Id that no stored record carries changes neither
\* collection nor the persisted state, writes nothing and raises nothing.
C8_UpdateAbsentIsNoOp ==
    \A id \in SomeIds \ Ids(trainingData) :
        \A record \in RecordPayloads({id}), failing \in AnyFailing :
            LET a == updateRecord(State, record, failing)
            IN /\ ~a.raised
               /\ a.trainingData = trainingData
               /\ a.plannedSessions = plannedSessions
               /\ a.storage = storage
               /\ a.writes = << >>

\* updateRecord was called with an absent Id on a store holding records
C8_Witness ==
    /\ last.op = "updateRecord"
    /\ last.id = AbsentId
    /\ ~last.raised
    /\ last.writes = << >>
    /\ trainingData # << >>
    /\ AbsentId \notin Ids(trainingData)

\* the records of seq whose Id is not id, counted
Others(seq, id) == Cardinality({i \in 1..Len(seq) : seq[i].Id # id})

\* C9: deleteRecord(id) with an id no record carries leaves the training
\* collection as it was and raises nothing; applied twice it yields what it
\* yields applied once; it removes no record whose Id differs from id.
C9_DeleteIdempotent ==
    \A id \in SomeIds, failing \in AnyFailing :
        LET a == deleteRecord(State, id, failing)
            b == deleteRecord(a, id, failing)
        IN /\ ~a.raised /\ ~b.raised
           /\ id \notin Ids(trainingData) => a.trainingData = trainingData
           /\ b.trainingData = a.trainingData
           /\ Len(a.trainingData) = Others(trainingData, id)
           /\ \A i \in 1..Len(trainingData) :
                  trainingData[i].Id # id =>
                      \E j \in 1..Len(a.trainingData) :
                          a.trainingData[j] = trainingData[i]

\* deleteRecord was called with an absent id on a store holding records
C9_Witness ==
    /\ last.op = "deleteRecord"
    /\ last.id = AbsentId
    /\ ~last.raised
    /\ trainingData # << >>

\* C10: importData(rows) replaces the training collection by one record per
\* row, in the order of the rows, each attributed to the acting user.
C10_ImportReplaces ==
    Initialized =>
        \A newData \in SeqsUpTo(CsvRows({NoId} \cup CsvIds), MaxRows) :
            LET a == importData(State, newData, now, {})
            IN /\ Len(a.trainingData) = Len(newData)
               /\ \A i \in 1..Len(newData) :
                      /\ a.trainingData[i].Trainer = currentUser
                      /\ a.trainingData[i].TraineeId = newData[i].TraineeId
                      /\ a.trainingData[i].TrainingType = newData[i].TrainingType
                      /\ a.trainingData[i].Hours = newData[i].Hours

\* C11: addRecord puts exactly one record in front of the training
\* collection, attributed to the payload's trainer if it names one and to the
\* acting user otherwise; the records stored before follow it unchanged and in
\* their order, and the plan collection is as it was.
C11_AddRecordPrepends ==
    \A record \in RecordPayloads({NoId}), failing \in AnyFailing :
        LET a == addRecord(State, record, now, failing)
        IN /\ ~a.raised
           /\ Len(a.trainingData) = Len(trainingData) + 1
           /\ Tail(a.trainingData) = trainingData
           /\ a.trainingData[1].Trainer =
                  IF Truthy(record.Trainer) THEN record.Trainer ELSE currentUser
           /\ a.trainingData[1].TraineeId = record.TraineeId
           /\ a.plannedSessions = plannedSessions

\* a record naming no trainer was added in front of two stored records
C11_Witness ==
    /\ last.op = "addRecord"
    /\ Len(trainingData) = 3
    /\ trainingData[1].Id = GeneratedId(now, rnd)
    /\ trainingData[1].Trainer = currentUser
    /\ trainingData[2].Id.t = 0
    /\ plannedSessions # << >>

\* the five fields a round trip is to keep; an empty cell and no cell read alike
SameCore(a, b) ==
    \A k \in {"TrainingDate", "TraineeId", "TrainingType", "Hours", "Sector"} :
        Cell(a[k]) = Cell(b[k])

\* C12: importing the rows exported from getTrainingLog gives a collection of
\* as many records, and record for record the same training date, trainee
\* id, training type, hours and sector as the exported log.
C12_RoundTrip ==
    \A log \in getTrainingLog(trainingData) :
        LET a == importData(State, parse(unparse(log)), now, {})
        IN /\ ~a.raised
           /\ Len(a.trainingData) = Len(trainingData)
           /\ \A i \in 1..Len(log) : SameCore(a.trainingData[i], log[i])

\* the roster rows whose trimmed Matricule is the trimmed identifier
Matching(orga, id) ==
    {i \in 1..Len(orga) : Truthy(orga[i].Matricule) /\ Trim(orga[i].Matricule) = Trim(id)}

\* the four roster fields of a stored record are those of the first matching
\* roster row, and "Unknown" when the identifier is empty or matches none
RosterFields(orga, record) ==
    IF ~Truthy(record.TraineeId) \/ Matching(orga, record.TraineeId) = {}
    THEN /\ record.FullName = "Unknown"
         /\ record.Gender = "Unknown"
         /\ record.Project = "Unknown"
         /\ record.CostCenter = "Unknown"
    ELSE LET row == orga[CHOOSE i \in Matching(orga, record.TraineeId) :
                             \A j \in Matching(orga, record.TraineeId) : i <= j]
         IN /\ record.FullName = row.FullName
            /\ record.Gender = row.Gender
            /\ record.Project = row.PROJET
            /\ record.CostCenter = row.CostCenter

\* C13: addRecord, updateRecord and importData do not throw whatever the
\* trainee identifier of the record is, and store the record with the Full
\* Name, Gender, Project and Cost Center of the matching roster entry, or
\* with "Unknown" in all four when the identifier is empty or matches none.
C13_UnknownRosterReference ==
    /\ \A record \in RecordPayloads({NoId}) :
           LET a == addRecord(State, record, now, {})
           IN ~a.raised /\ RosterFields(orgaData, a.trainingData[1])
    /\ \A record \in RecordPayloads(Ids(trainingData)) :
           LET a == updateRecord(State, record, {})
           IN /\ ~a.raised
              /\ \A i \in 1..Len(a.trainingData) :
                     a.trainingData[i].Id = record.Id
                         => /\ a.trainingData[i].TraineeId = record.TraineeId
                            /\ RosterFields(orgaData, a.trainingData[i])
    /\ \A newData \in SeqsUpTo(CsvRows({NoId} \cup CsvIds), MaxRows) :
           LET a == importData(State, newData, now, {})
           IN /\ ~a.raised
              /\ Len(a.trainingData) = Len(newData)
              /\ \A i \in 1..Len(a.trainingData) :
                     RosterFields(orgaData, a.trainingData[i])

Unparseable(date) == ~IsValidDate(ParseDate(date))

\* the buckets a record of unparseable date is to fall in
NoBucket == {"Unknown", "", Undefined}

\* C15: adding, updating or importing a record whose Training Date is
\* missing, empty or unparseable does not throw, and the record gets an
\* "Unknown" or empty Month and Week and is counted under such a month by
\* the sessions-per-month aggregate.
C15_UnparseableDateTolerated ==
    /\ \A record \in RecordPayloads({NoId}) :
           LET a == addRecord(State, record, now, {})
           IN Unparseable(record.TrainingDate) =>
                  /\ ~a.raised
                  /\ a.trainingData[1].Month \in NoBucket
                  /\ a.trainingData[1].Week \in NoBucket
                  /\ DOMAIN sessionsByMonth(a.trainingData)
                         \subseteq DOMAIN sessionsByMonth(trainingData) \cup NoBucket
    /\ \A record \in RecordPayloads(Ids(trainingData)) :
           LET a == updateRecord(State, record, {})
           IN Unparseable(record.TrainingDate) =>
                  /\ ~a.raised
                  /\ \A i \in Indices(a.trainingData) :
                         a.trainingData[i].Id = record.Id =>
                             /\ a.trainingData[i].Month \in NoBucket
                             /\ a.trainingData[i].Week \in NoBucket
    /\ \A newData \in SeqsUpTo(CsvRows({NoId} \cup CsvIds), MaxRows) :
           LET a == importData(State, newData, now, {})
           IN /\ ~a.raised
              /\ \A i \in Indices(a.trainingData) :
                     Unparseable(newData[i].TrainingDate) =>
                         /\ a.trainingData[i].Month \in NoBucket
                         /\ a.trainingData[i].Week \in NoBucket

\* log holds the records of seq, each as often as seq does
IsPermutationOf(log, seq) ==
    /\ Len(log) = Len(seq)
    /\ \A r \in {seq[i] : i \in Indices(seq)} \cup {log[i] : i \in Indices(log)} :
           Cardinality({i \in Indices(log) : log[i] = r})
               = Cardinality({i \in Indices(seq) : seq[i] = r})

\* of two records with a date, the one of the later date comes first
DateDescending(log) ==
    \A i, j \in Indices(log) :
        i < j /\ Time(log[i].TrainingDate) # 0 /\ Time(log[j].TrainingDate) # 0
            => Time(log[i].TrainingDate) >= Time(log[j].TrainingDate)

\* C16: every array getTrainingLog returns is a permutation of the stored
\* records in descending order of training date, and the call leaves the
\* stored collection as it was.
C16_LogSortedCopy ==
    /\ \A log \in getTrainingLog(trainingData) :
           IsPermutationOf(log, trainingData) /\ DateDescending(log)
    /\ result.of = "getTrainingLog" /\ last.op = "getTrainingLog" =>
           IsPermutationOf(result.value, trainingData)

\* the stored records of a fiscal year, month and training type, by index
RecordsIn(fy, month, type) ==
    {i \in Indices(trainingData) :
        /\ FiscalYearOfText(trainingData[i].TrainingDate) = fy
        /\ trainingData[i].Month = month
        /\ trainingData[i].TrainingType = type}

\* the monthly data of a fiscal year, as the report computes it
MonthlyDataOf(fy) ==
    calculateMonthlyData(
        SelectSeq(trainingData, LAMBDA r : FiscalYearOfText(r.TrainingDate) = fy),
        SelectSeq(plannedSessions, LAMBDA p : FiscalYearOfText(p.plannedDate) = fy))

\* C17: in the monthly data of every fiscal year and for every fiscal month,
\* operators-qualified is the number of distinct trainee identifiers among
\* the month's Qualification records and qualifications-realised the number
\* of these records; likewise for Refreshment.
C17_DistinctOperators ==
    \A fy \in FiscalYears(trainingData) \ {0} :
        \A m \in 1..12 :
            LET entry == MonthlyDataOf(fy)[FISCAL_MONTHS[m]]
                qualif == RecordsIn(fy, FISCAL_MONTHS[m], "Qualification")
                refresh == RecordsIn(fy, FISCAL_MONTHS[m], "Refreshment")
            IN /\ Cardinality(entry.operatorsQual)
                      = Cardinality({trainingData[i].TraineeId : i \in qualif})
               /\ entry.qualifRealised = Cardinality(qualif)
               /\ Cardinality(entry.operatorsRefresh)
                      = Cardinality({trainingData[i].TraineeId : i \in refresh})
               /\ entry.refreshRealised = Cardinality(refresh)

\* the report of fiscal year 2024 shows July with one operator qualified in
\* two qualifications realised
C17_Witness ==
    /\ shown.yearlyReport.rendered
    /\ shown.yearlyReport.selected = 2024
    /\ Cardinality(shown.yearlyReport.monthlyData["July"].operatorsQual) = 1
    /\ shown.yearlyReport.monthlyData["July"].qualifRealised = 2

\* the planned sessions of a fiscal year and training type, by index
PlansIn(fy, type) ==
    {i \in Indices(plannedSessions) :
        /\ FiscalYearOfText(plannedSessions[i].plannedDate) = fy
        /\ plannedSessions[i].trainingType = type}

\* the trainee slots of the planned sessions of the given indices
RECURSIVE Slots(_)
Slots(indices) ==
    IF indices = {} THEN 0
    ELSE LET i == CHOOSE j \in indices : TRUE
         IN Len(plannedSessions[i].trainees) + Slots(indices \ {i})

\* the sum of a figure of the monthly data over the first m fiscal months
RECURSIVE OverMonths(_, _, _)
OverMonths(monthlyData, figure, m) ==
    IF m = 0 THEN 0
    ELSE monthlyData[FISCAL_MONTHS[m]][figure] + OverMonths(monthlyData, figure, m - 1)

\* C18: in the monthly data of every fiscal year, the planned figure of a
\* month and type is the sum of the trainee-list lengths of the year's
\* planned sessions of that type dated in that month, and the twelve monthly
\* planned figures of a type add up to the planned figure of the Total row.
C18_PlannedSlots ==
    \A fy \in FiscalYears(trainingData) \ {0} :
        LET monthlyData == MonthlyDataOf(fy)
            totals ==
                Totals(SelectSeq(trainingData, LAMBDA r : FiscalYearOfText(r.TrainingDate) = fy),
                       SelectSeq(plannedSessions, LAMBDA p : FiscalYearOfText(p.plannedDate) = fy))
            Dated(indices, month) ==
                {i \in indices :
                    MONTH_ORDER[ParseDate(plannedSessions[i].plannedDate).m] = month}
        IN /\ \A m \in 1..12 :
                  /\ monthlyData[FISCAL_MONTHS[m]].qualifPlanned
                         = Slots(Dated(PlansIn(fy, "Qualification"), FISCAL_MONTHS[m]))
                  /\ monthlyData[FISCAL_MONTHS[m]].refreshPlanned
                         = Slots(Dated(PlansIn(fy, "Refreshment"), FISCAL_MONTHS[m]))
           /\ OverMonths(monthlyData, "qualifPlanned", 12) = totals.qualification.planned
           /\ OverMonths(monthlyData, "refreshPlanned", 12) = totals.refreshment.planned

\* the report of fiscal year 2024 shows two planned qualification slots in
\* July, from one session of two trainees, and three in the Total row
C18_Witness ==
    /\ shown.yearlyReport.rendered
    /\ shown.yearlyReport.selected = 2024
    /\ Cardinality(PlansIn(2024, "Qualification")) = 2
    /\ shown.yearlyReport.monthlyData["July"].qualifPlanned = 2
    /\ shown.yearlyReport.monthlyData["January"].qualifPlanned = 1
    /\ shown.yearlyReport.totals.qualification.planned = 3

\* the text shows the quotient of the sum by the count n, to the hundredth
ShowsQuotient(text, sum, n) ==
    IF sum.kind = "finite"
    THEN /\ text.kind = "finite"
         /\ 2 * n * text.hundredths - 20 * sum.v > -n
         /\ 2 * n * text.hundredths - 20 * sum.v <= n
    ELSE text.kind = sum.kind /\ text.hundredths = sum.v

\* the number is the quotient of the sum by the count n
IsQuotient(number, sum, n) ==
    IF sum.kind = "finite"
    THEN number.kind = "finite" /\ number.v * n = sum.v * number.d
    ELSE number = sum

\* the records of a trainer label
RecordsOf(records, trainer) ==
    SelectSeq(records, LAMBDA r : TrainerLabel(r) = trainer)

\* the card of the dashboard shows 0 without trainees and the quotient of the
\* hours by the trainees otherwise
DashboardAverage(records) ==
    IF UniqueTrainees(records) = 0
    THEN shown.dashboard.kpi.avgHours.kind = "finite"
         /\ shown.dashboard.kpi.avgHours.hundredths = 0
    ELSE ShowsQuotient(shown.dashboard.kpi.avgHours, TotalHours(records),
                       UniqueTrainees(records))

\* the row of every trainer shows the quotient of the hours by the sessions
PerformanceAverage(records) ==
    \A trainer \in DOMAIN shown.performance.table :
        ShowsQuotient(shown.performance.table[trainer].avgHours,
                      TotalHours(RecordsOf(records, trainer)),
                      Len(RecordsOf(records, trainer)))

\* every cell of the analysis is 0 without sessions and the quotient of the
\* hours by the sessions otherwise
AnalysisAverage(records) ==
    \A gender \in {"Female", "Male"}, type \in {"Qualification", "Refreshment"} :
        IF AvgCell(records, type, gender).c = 0
        THEN shown.analysis.avgHoursByGender[gender][type] = Zero
        ELSE IsQuotient(shown.analysis.avgHoursByGender[gender][type],
                        AvgCell(records, type, gender).h,
                        AvgCell(records, type, gender).c)

\* The guard itself: every average the views compute is 0 when its denominator
\* is 0 and the sum divided by the denominator otherwise, and no render
\* raises, the empty collection included.  An average is then NaN only where
\* the sum of the hours is NaN.
ZeroGuard ==
    /\ ~last.raised
    /\ shown.dashboard.rendered => DashboardAverage(trainingData)
    /\ shown.performance.rendered => PerformanceAverage(trainingData)
    /\ shown.analysis.rendered => AnalysisAverage(trainingData)

\* the three views are rendered over records with an empty cell and a cell of
\* two sessions of 2 and 1.5 hours
ZeroGuardWitness ==
    /\ shown.dashboard.rendered /\ shown.performance.rendered /\ shown.analysis.rendered
    /\ AvgCell(trainingData, "Refreshment", "Male").c = 0
    /\ shown.analysis.avgHoursByGender["Male"]["Refreshment"] = Zero
    /\ AvgCell(trainingData, "Qualification", "Female").c = 2
    /\ shown.analysis.avgHoursByGender["Female"]["Qualification"] =
           [kind |-> "finite", v |-> 35, d |-> 2]
    /\ shown.dashboard.kpi.avgHours = Decimal(350, 2)

\* no average shown is NaN
NoAverageNaN ==
    /\ shown.dashboard.rendered => shown.dashboard.kpi.avgHours.kind # "NaN"
    /\ shown.performance.rendered =>
           \A trainer \in DOMAIN shown.performance.table :
               shown.performance.table[trainer].avgHours.kind # "NaN"
    /\ shown.analysis.rendered =>
           \A gender \in {"Female", "Male"}, type \in {"Qualification", "Refreshment"} :
               shown.analysis.avgHoursByGender[gender][type].kind # "NaN"

\* C19: every average the views compute (the dashboard's hours per trainee,
\* the hours per session of each trainer, the analysis cell of each gender and
\* type) is 0 when its denominator is 0 and the sum divided by the denominator
\* otherwise, and no average is ever undefined, NaN or an error, for any
\* collection of records, the empty one included.
C19_ZeroGuardNeverNaN == ZeroGuard /\ NoAverageNaN

\* the label of a record for a dimension: "Unknown" for a missing or empty value
LabelOf(r, field) ==
    IF r[field] = Undefined \/ r[field] = "" THEN "Unknown" ELSE r[field]

\* the labels of the records for a dimension
Groups(records, field) ==
    { LabelOf(records[i], field) : i \in Indices(records) }

\* the records of a label of a dimension
Grouped(records, field, label) ==
    SelectSeq(records, LAMBDA r : LabelOf(r, field) = label)

\* the map gives the hours of each label of the dimension and of no other
HoursByLabel(map, records, field) ==
    /\ DOMAIN map = Groups(records, field)
    /\ \A label \in DOMAIN map :
           map[label] = TotalHours(Grouped(records, field, label))

\* the keys of a cross-tab carry the sector labels of the records
SectorParts(crosstab, records) ==
    { key[2] : key \in DOMAIN crosstab } = Groups(records, "Sector")

\* C20: in every aggregate that groups by training type, sector, trainer or
\* project, the sector part of the weekly and monthly cross-tab keys
\* included, a record without a value for the dimension is counted under
\* "Unknown", and is neither dropped nor counted under another label.
C20_UnknownLabel ==
    /\ shown.dashboard.rendered =>
           /\ HoursByLabel(shown.dashboard.hoursByType, trainingData, "TrainingType")
           /\ HoursByLabel(shown.dashboard.hoursByProject, trainingData, "Project")
    /\ shown.performance.rendered =>
           /\ DOMAIN shown.performance.performanceData = Groups(trainingData, "Trainer")
           /\ \A trainer \in DOMAIN shown.performance.performanceData :
                  /\ shown.performance.performanceData[trainer].sessions =
                         Len(Grouped(trainingData, "Trainer", trainer))
                  /\ shown.performance.performanceData[trainer].hours =
                         TotalHours(Grouped(trainingData, "Trainer", trainer))
    /\ shown.analysis.rendered =>
           /\ DOMAIN shown.analysis.sessionsByArea = Groups(trainingData, "Sector")
           /\ \A sector \in DOMAIN shown.analysis.sessionsByArea :
                  shown.analysis.sessionsByArea[sector] =
                      Len(Grouped(trainingData, "Sector", sector))
           /\ SectorParts(shown.analysis.weeklyHoursByGender, trainingData)
           /\ SectorParts(shown.analysis.weeklyHoursByType, trainingData)
           /\ SectorParts(shown.analysis.monthlyHoursByGender, trainingData)
           /\ SectorParts(shown.analysis.monthlyHoursByType, trainingData)

\* C21: getFiscalYear returns 'FY Y' with Y the calendar year for a date of
\* July to December and the calendar year minus one for a date of January to
\* June, and returns the empty text, raising nothing, for a value that is no
\* valid date.
C21_FiscalYear ==
    result.of = "getFiscalYear" =>
        /\ ~last.raised
        /\ IF result.date.type = "Date" /\ result.date.date.y # 0
           THEN /\ result.date.date.m \in 7..12
                    => result.value = << "FY", result.date.date.y >>
                /\ result.date.date.m \in 1..6
                    => result.value = << "FY", result.date.date.y - 1 >>
           ELSE result.value = << >>

\* getFiscalYear was called with June 30 2024 and returned 'FY 2023'
C21_Witness ==
    /\ result.of = "getFiscalYear"
    /\ result.date = DateObject([y |-> 2024, m |-> 6, d |-> 30])
    /\ result.value = << "FY", 2023 >>

\* the day of the month of a date text, 0 for a text that is no date
DayOf(text) == IF text \in DOMAIN DateTable THEN DateTable[text].d ELSE 0

\* the week of a day of the month
WeekOfDay(day) ==
    CASE day \in 1..7 -> "Week 1"
      [] day \in 8..14 -> "Week 2"
      [] day \in 15..21 -> "Week 3"
      [] day \in 22..28 -> "Week 4"
      [] day \in 29..31 -> "Week 5"

\* C22: the Week of every record written with a valid training date is
\* 'Week N' with N = ceil(day / 7): Week 1 for the days 1 to 7, Week 2 for 8
\* to 14, Week 3 for 15 to 21, Week 4 for 22 to 28 and Week 5 for 29 to 31.
C22_WeekOfMonth ==
    \A i \in 1..Len(trainingData) :
        DayOf(trainingData[i].TrainingDate) # 0
            => trainingData[i].Week = WeekOfDay(DayOf(trainingData[i].TrainingDate))

\* a record of July 7 was written, by an update of a record of another day
C22_Witness ==
    /\ last.op = "updateRecord"
    /\ Len(trainingData) = 1
    /\ trainingData[1].TrainingDate = "2024-07-07"
    /\ trainingData[1].Week = "Week 1"

\* the state of the two forms: the editing flags, the hidden id inputs and the
\* trainees selected in the planning form
formState ==
    << isEditing, recordIdInput, planIsEditing, planIdInput, selectedTrainees >>

\* the step leaves a deferred render pending: it neither runs nor schedules one
StaysPending == timers # << >> /\ timers' = timers

\* C23: a view switch schedules at most one deferred render, and between the
\* scheduling of a deferred render and its execution no record or plan is
\* added, updated, deleted or imported and no form changes its edit state, so
\* that the deferred render discards nothing produced after it was scheduled.
C23_NoOrderingHazard ==
    [][/\ Len(timers') <= Len(timers) + 1
       /\ StaysPending => UNCHANGED << trainingData, plannedSessions, formState >>]_vars

\* the plans of a sequence that carry another identifier than id
OtherPlans(plans, id) == SelectSeq(plans, LAMBDA p : p.Id # id)

\* the statuses of the plans, in the order of the store
Statuses(plans) == [i \in 1..Len(plans) |-> plans[i].status]

\* C24: the status of a stored planned session changes only by an updatePlan
\* call carrying its Id: addPlan, deletePlan of another session, every
\* operation on the training records and every render leave the status of
\* every stored planned session as it was.
C24_NoAutomaticTransition ==
    [][/\ last'.op = "addPlan"
           => SubSeq(Statuses(plannedSessions'), 1, Len(plannedSessions))
                  = Statuses(plannedSessions)
       /\ last'.op = "deletePlan"
           => Statuses(OtherPlans(plannedSessions', last'.id))
                  = Statuses(OtherPlans(plannedSessions, last'.id))
       /\ last'.op = "updatePlan"
           => /\ Len(plannedSessions') = Len(plannedSessions)
              /\ \A i \in 1..Len(plannedSessions) :
                     plannedSessions[i].Id # last'.id
                         => plannedSessions'[i].status = plannedSessions[i].status
       /\ last'.op \notin {"addPlan", "deletePlan", "updatePlan", "init"}
           => Statuses(plannedSessions') = Statuses(plannedSessions)]_vars

\* one of two stored plans was deleted and the other one keeps its status
C24_Witness ==
    /\ last.op = "deletePlan"
    /\ last.id = [t |-> 0, r |-> 1]
    /\ Len(plannedSessions) = 1
    /\ plannedSessions[1].Id = [t |-> 0, r |-> 2]
    /\ plannedSessions[1].status = "Planned"

\* C29: after any sequence of addPlan, updatePlan and deletePlan calls no two
\* planned sessions of the store share an Id, also when two addPlan calls
\* read the same value of the clock.
C29_UniquePlanIds ==
    \A i, j \in 1..Len(plannedSessions) :
        i # j => plannedSessions[i].Id # plannedSessions[j].Id

\* a render of the component of the view is scheduled by the step
Scheduled(view) ==
    /\ Len(timers') = Len(timers) + 1
    /\ timers'[Len(timers')].view = view

\* C25: a switch to any of the seven views, by a click on its link or after a
\* submission of the training form, makes the render of the component of
\* that view run: the form of 'add' is rendered at once, the render of every
\* other view is scheduled.
C25_SwitchRenders ==
    [][currentView' # currentView /\ currentView' # "add"
           => Scheduled(currentView')]_vars

\* the record the training form submits for an input
Submitted(input) ==
    Record(recordIdInput, Undefined, input.date, input.trainee, input.type,
           input.refreshment, input.hours, input.sector)

\* the fields the form gives are those of the record
Carries(record, input) ==
    /\ record.TrainingDate = input.date
    /\ record.TraineeId = input.trainee
    /\ record.TrainingType = input.type
    /\ record.Hours = input.hours
    /\ record.Sector = input.sector

\* a click on Edit of a stored record shown in the log puts the form in
\* editing mode with the Id of the record
EditGivesEditingMode ==
    started /\ ~modalVisible /\ currentView = "log" =>
        \A id \in logRows \cap Ids(trainingData) :
            /\ editRecord(State, id).currentView = "add"
            /\ editRecord(State, id).isEditing
            /\ editRecord(State, id).recordIdInput = id

\* a submission in editing mode updates the record of the form and adds none
EditingSubmissionUpdates ==
    started /\ currentView = "add" /\ isEditing =>
        /\ recordIdInput \in Ids(trainingData)
        /\ \A input \in FormInputs :
               /\ submitEvent(State, input, now, {}).called = "updateRecord"
               /\ submitEvent(State, input, now, {}).calledId = recordIdInput
               /\ Len(submitEvent(State, input, now, {}).trainingData) = Len(trainingData)
               /\ \A i \in 1..Len(trainingData) :
                      IF i = FirstIndex(trainingData, LAMBDA r : r.Id = recordIdInput)
                      THEN Carries(submitEvent(State, input, now, {}).trainingData[i], input)
                      ELSE submitEvent(State, input, now, {}).trainingData[i]
                               = trainingData[i]

\* the link of the add view puts the form in creation mode
LinkGivesCreationMode ==
    started /\ ~modalVisible =>
        /\ ~navEvent(State, "add", 1).isEditing
        /\ navEvent(State, "add", 1).recordIdInput = NoId

\* a submission in creation mode adds one record and updates none
CreationSubmissionAdds ==
    started /\ currentView = "add" /\ ~isEditing =>
        \A input \in FormInputs :
            /\ submitEvent(State, input, now, {}).called = "addRecord"
            /\ Len(submitEvent(State, input, now, {}).trainingData)
                   = Len(trainingData) + 1
            /\ Carries(submitEvent(State, input, now, {}).trainingData[1], input)
            /\ SubSeq(submitEvent(State, input, now, {}).trainingData, 2,
                      Len(trainingData) + 1) = trainingData

\* C26: after Edit on a stored record R the training form is in editing mode
\* with the Id of R and the next submission updates R and adds no record;
\* after the add view is reached through its link the form is in creation
\* mode and the next submission adds exactly one record and updates none,
\* whatever edits preceded.
C26_EditFlow ==
    /\ EditGivesEditingMode
    /\ EditingSubmissionUpdates
    /\ LinkGivesCreationMode
    /\ CreationSubmissionAdds

\* Edit was clicked on the stored record, the form was submitted with other
\* hours, and the store holds the one record, updated
C26_Witness ==
    /\ last.op = "updateRecord"
    /\ last.id = recordIdInput
    /\ isEditing
    /\ currentView = "log"
    /\ Len(trainingData) = 1
    /\ trainingData[1].Id = recordIdInput
    /\ trainingData[1].Hours = "0"

\* C27: the application is started at most once per page load: a started
\* application is never started again (the store is not initialized again and
\* no component is constructed again), and a submission of the training form
\* that adds to the store adds exactly one record
C27_StartedOnce ==
    [][ /\ started => last'.op # "init"
        /\ (last'.op = "addRecord" /\ ~last'.raised)
               => Len(trainingData') = Len(trainingData) + 1 ]_vars

\* the state two clicks on the login button lead to: one submission has added
\* two records through the listeners of two TrainingForm objects
TwiceAdded ==
    /\ staleForms # << >>
    /\ last.op = "addRecord"
    /\ Len(trainingData) >= 2

\* the four roster fields of a record are those the roster yields for its
\* trainee: the values of the roster entry, or 'Unknown' when none matches
FromRoster(orga, record) ==
    record = WithEmployee(record, getEmployeeById(orga, record.TraineeId))

\* C28: after any sequence of init, addRecord, updateRecord and importData,
\* a second init with another roster included, every record of the training
\* collection has the Full Name, Gender, Project and Cost Center the roster
\* in use yields for its trainee
C28_NeverStale ==
    \A i \in 1..Len(trainingData) : FromRoster(orgaData, trainingData[i])

\* each write leaves the records it wrote with the fields of the roster in use
WrittenFromRoster ==
    /\ last.op = "addRecord" /\ ~last.raised => FromRoster(orgaData, trainingData[1])
    /\ last.op = "importData" /\ ~last.raised => C28_NeverStale
    /\ last.op = "updateRecord" /\ ~last.raised =>
           \A i \in 1..Len(trainingData) :
               i = FirstIndex(trainingData, LAMBDA record : record.Id = last.id)
                   => FromRoster(orgaData, trainingData[i])

\* the months from year 0 to the month of a date
MonthCount(date) == 12 * date.y + date.m

\* the month and year the calendar shows after a sequence of month changes
Shows(a) == MonthYearDisplay(a.calendarDate)

\* C30: changeMonth(1) moves the displayed month forward by exactly one
\* calendar month and changeMonth(-1) back by exactly one, from every date,
\* the 29th, 30th and 31st included, so that changeMonth(1) followed by
\* changeMonth(-1) shows the month and year shown before
C30_ExactlyOneMonth ==
    /\ \A direction \in {-1, 1} :
           MonthCount(changeMonth(State, direction).calendarDate)
               = MonthCount(calendarDate) + direction
    /\ Shows(changeMonth(changeMonth(State, 1), -1)) = MonthYearDisplay(calendarDate)

\* from the days every month has, the 1st to the 28th, a month change moves
\* exactly one month
OneMonthFromCommonDays ==
    calendarDate.d <= 28 => C30_ExactlyOneMonth

====
